---- MODULE Spec2Model ----
(***************************************************************************)
(* Colors-LE: the color extractors (CSS, HTML, JavaScript, SVG, Stylus)    *)
(* and the extractColors entry point, modelled on the character level.     *)
(*                                                                         *)
(* A string is a sequence of one-character strings.  Indices handed       *)
(* between operators are the 0-based indices of the TypeScript source      *)
(* (match.index, lastIndex, substring bounds).                             *)
(***************************************************************************)
EXTENDS Integers, Sequences, FiniteSets, TLC

VARIABLES
    content,    \* the text of the document the next call is made on
    regex,      \* lastIndex of every module-level /g pattern object
    out,        \* what the most recent call returned (or that it threw)
    args,       \* the arguments the conversion and analysis calls are made on
    monitor,    \* the fields of the PerformanceMonitor object
    now,        \* Date.now(), in milliseconds
    computed,   \* per cache key: what compute() last returned, and when
    recorded,   \* how many metrics the monitor was handed since the last clear()
    tracker,    \* the closure of createPerformanceTracker: its monitor and currentOperation
    service,    \* the closure of createPerformanceMonitoringService and the handles it gave out
    started     \* whether start() was called since the previous end(), per object

vars == <<content, regex, out, args, monitor, now, computed, recorded, tracker,
         service, started>>

\* what the extractors and the extract command never touch
others == <<args, monitor, now, computed, recorded, tracker, service, started>>

-----------------------------------------------------------------------------
(* Character classes of the regular expressions                            *)

DigitSeq == <<"0", "1", "2", "3", "4", "5", "6", "7", "8", "9">>

Digits == {DigitSeq[i] : i \in DOMAIN DigitSeq}

LowerSeq == <<"a", "b", "c", "d", "e", "f", "g", "h", "i", "j", "k", "l", "m", "n", "o", "p", "q", "r", "s", "t", "u", "v", "w", "x", "y", "z">>

UpperSeq == <<"A", "B", "C", "D", "E", "F", "G", "H", "I", "J", "K", "L", "M", "N", "O", "P", "Q", "R", "S", "T", "U", "V", "W", "X", "Y", "Z">>

LowerLetters == {LowerSeq[i] : i \in DOMAIN LowerSeq}

UpperLetters == {UpperSeq[i] : i \in DOMAIN UpperSeq}

\* [0-9a-fA-F]
HexDigits == Digits \cup {"a", "b", "c", "d", "e", "f"}
                    \cup {"A", "B", "C", "D", "E", "F"}

\* \w
WordChars == Digits \cup LowerLetters \cup UpperLetters \cup {"_"}

\* \s, and what String.prototype.trim strips
WhiteSpace == {" ", "\t", "\n", "\r"}

\* [\d.]
DigitsDot == Digits \cup {"."}

\* [\x22']
Quotes == {"\"", "'"}

\* ['\x22`]; the one-character string of a backtick is written "BACKTICK"
Quotes3 == Quotes \cup {"BACKTICK"}

-----------------------------------------------------------------------------
(* String primitives: the String.prototype methods the extractors use     *)

SetMax(S) == CHOOSE x \in S : \A y \in S : y <= x

SetMin(S) == CHOOSE x \in S : \A y \in S : x <= y

\* s.substring(a, b)
Substring(s, a, b) == SubSeq(s, a + 1, b)

\* s.startsWith(p, i)
StartsWithAt(s, i, p) ==
    /\ i >= 0
    /\ i + Len(p) <= Len(s)
    /\ SubSeq(s, i + 1, i + Len(p)) = p

\* s.startsWith(p)
StartsWith(s, p) == StartsWithAt(s, 0, p)

\* s.includes(p)
Includes(s, p) == \E i \in 0..(Len(s) - Len(p)) : StartsWithAt(s, i, p)

\* s.lastIndexOf(p)
LastIndexOf(s, p) ==
    LET hits == {i \in 0..(Len(s) - Len(p)) : StartsWithAt(s, i, p)}
    IN  IF hits = {} THEN -1 ELSE SetMax(hits)

\* s.toLowerCase(), and a letter under the /i flag
toLowerCase(s) ==
    [k \in 1..Len(s) |->
        IF s[k] \in UpperLetters
        THEN LowerSeq[CHOOSE i \in DOMAIN UpperSeq : UpperSeq[i] = s[k]]
        ELSE s[k]]

\* s.trim()
Trim(s) ==
    LET keep == {i \in 1..Len(s) : s[i] \notin WhiteSpace}
    IN  IF keep = {} THEN <<>> ELSE SubSeq(s, SetMin(keep), SetMax(keep))

\* s.split('\n')
RECURSIVE Split(_)
Split(s) ==
    LET nl == {i \in 1..Len(s) : s[i] = "\n"}
    IN  IF nl = {}
        THEN <<s>>
        ELSE <<SubSeq(s, 1, SetMin(nl) - 1)>>
                 \o Split(SubSeq(s, SetMin(nl) + 1, Len(s)))

-----------------------------------------------------------------------------
(* Regular-expression building blocks.  A position of -1 means "the match  *)
(* has failed"; every piece hands a failure on.                            *)

\* a greedy C* from position p
RECURSIVE SkipClass(_, _, _)
SkipClass(s, p, C) ==
    IF p < Len(s) /\ s[p + 1] \in C THEN SkipClass(s, p + 1, C) ELSE p

\* C*  (the character that follows is never in C, so greedy is exact)
Star(s, p, C) == IF p < 0 THEN -1 ELSE SkipClass(s, p, C)

\* C+
Plus(s, p, C) ==
    IF p < 0 \/ SkipClass(s, p, C) = p THEN -1 ELSE SkipClass(s, p, C)

\* a greedy [^C]* from position p
RECURSIVE SkipNot(_, _, _)
SkipNot(s, p, C) ==
    IF p < Len(s) /\ s[p + 1] \notin C THEN SkipNot(s, p + 1, C) ELSE p

\* [^C]*
StarNot(s, p, C) == IF p < 0 THEN -1 ELSE SkipNot(s, p, C)

\* a literal
Lit(s, p, lit) == IF p >= 0 /\ StartsWithAt(s, p, lit) THEN p + Len(lit) ELSE -1

\* a literal under the /i flag (lit is written in lower case)
LitI(s, p, lit) ==
    IF p >= 0 /\ p + Len(lit) <= Len(s)
           /\ toLowerCase(SubSeq(s, p + 1, p + Len(lit))) = lit
    THEN p + Len(lit) ELSE -1

\* one character of class C
One(s, p, C) == IF p >= 0 /\ p < Len(s) /\ s[p + 1] \in C THEN p + 1 ELSE -1

\* [^C]+ and then one character of C
UpTo(s, p, C) ==
    IF p < 0 \/ SkipNot(s, p, C) = p \/ SkipNot(s, p, C) >= Len(s) THEN -1
    ELSE SkipNot(s, p, C) + 1

\* the value v, named in what follows
Let(v, In(_)) == In(v)

\* \b at position p
WordBoundary(s, p) ==
    (p > 0 /\ s[p] \in WordChars) # (p < Len(s) /\ s[p + 1] \in WordChars)

-----------------------------------------------------------------------------
(* The color patterns.  css.ts, html.ts, javascript.ts and svg.ts each     *)
(* declare their own five module-level /g objects with these same texts.   *)
(* Each operator gives the end of the match that starts at i, or -1.       *)

\* \s*(\d+)
NumArg(s, p) == Plus(s, Star(s, p, WhiteSpace), Digits)

\* \s*,
Comma(s, p) == Lit(s, Star(s, p, WhiteSpace), <<",">>)

\* \s*\)
Close(s, p) == Lit(s, Star(s, p, WhiteSpace), <<")">>)

\* /#([0-9a-fA-F]{3}|[0-9a-fA-F]{6}|[0-9a-fA-F]{8})\b/
HEX_PATTERN(s, i) ==
    LET Alt(k) == /\ Lit(s, i, <<"#">>) >= 0
                  /\ SkipClass(s, i + 1, HexDigits) >= i + 1 + k
                  /\ WordBoundary(s, i + 1 + k)
    IN  IF Alt(3) THEN i + 4
        ELSE IF Alt(6) THEN i + 7
        ELSE IF Alt(8) THEN i + 9
        ELSE -1

\* %  where the pattern has one
Percent(s, p, percent) == IF percent THEN Lit(s, p, <<"%">>) ELSE p

\* name\s*\(\s*(\d+)\s*,\s*(\d+)%?\s*,\s*(\d+)%?
FuncArgs(s, i, name, percent) ==
    Percent(s,
        NumArg(s, Comma(s,
            Percent(s,
                NumArg(s, Comma(s,
                    NumArg(s, Lit(s, Star(s, Lit(s, i, name), WhiteSpace),
                                  <<"(">>)))),
                percent))),
        percent)

\* \s*,\s*([\d.]+)\s*\)
AlphaArg(s, p) == Close(s, Plus(s, Star(s, Comma(s, p), WhiteSpace), DigitsDot))

\* the arguments, and then
\*   alpha \x22none\x22:     \s*\)
\*   alpha \x22required\x22: \s*,\s*([\d.]+)\s*\)
\*   alpha \x22optional\x22: (?:\s*,\s*([\d.]+))?\s*\)
FuncPattern(s, i, name, percent, alpha) ==
    IF alpha = "none" THEN Close(s, FuncArgs(s, i, name, percent))
    ELSE IF \/ alpha = "required"
            \/ AlphaArg(s, FuncArgs(s, i, name, percent)) >= 0
    THEN AlphaArg(s, FuncArgs(s, i, name, percent))
    ELSE Close(s, FuncArgs(s, i, name, percent))

\* /rgb\s*\(\s*(\d+)\s*,\s*(\d+)\s*,\s*(\d+)\s*\)/
RGB_PATTERN(s, i) == FuncPattern(s, i, <<"r", "g", "b">>, FALSE, "none")

\* /rgba\s*\(\s*(\d+)\s*,\s*(\d+)\s*,\s*(\d+)\s*,\s*([\d.]+)\s*\)/
RGBA_PATTERN(s, i) == FuncPattern(s, i, <<"r", "g", "b", "a">>, FALSE, "required")

\* /hsl\s*\(\s*(\d+)\s*,\s*(\d+)%\s*,\s*(\d+)%\s*\)/
HSL_PATTERN(s, i) == FuncPattern(s, i, <<"h", "s", "l">>, TRUE, "none")

\* /hsla\s*\(\s*(\d+)\s*,\s*(\d+)%\s*,\s*(\d+)%\s*,\s*([\d.]+)\s*\)/
HSLA_PATTERN(s, i) == FuncPattern(s, i, <<"h", "s", "l", "a">>, TRUE, "required")

\* the five color passes every extractor makes over a line, in source order
ColorPatterns == <<"HEX", "RGB", "RGBA", "HSL", "HSLA">>

\* javascript.ts: /['\x22BACKTICK]([^'\x22BACKTICK]*?)['\x22BACKTICK]/
STRING_COLOR_PATTERN(s, i) ==
    IF One(s, i, Quotes3) < 0 \/ SkipNot(s, i + 1, Quotes3) >= Len(s) THEN -1
    ELSE SkipNot(s, i + 1, Quotes3) + 1

svgColorAttributes ==
    <<<<"f", "i", "l", "l">>, <<"s", "t", "r", "o", "k", "e">>, <<"s", "t", "o", "p", "-", "c", "o", "l", "o", "r">>, <<"f", "l", "o", "o", "d", "-", "c", "o", "l", "o", "r">>, <<"l", "i", "g", "h", "t", "i", "n", "g", "-", "c", "o", "l", "o", "r">>, <<"c", "o", "l", "o", "r">>>>

\* svg.ts: /(?:fill|stroke|stop-color|flood-color|lighting-color|color)=[\x22']([^\x22']+)[\x22']/i
SVG_COLOR_ATTRIBUTES(s, i) ==
    LET Alt(k) == UpTo(s, One(s, Lit(s, LitI(s, i, svgColorAttributes[k]), <<"=">>),
                              Quotes), Quotes)
    IN  IF \A k \in DOMAIN svgColorAttributes : Alt(k) < 0 THEN -1
        ELSE Alt(SetMin({k \in DOMAIN svgColorAttributes : Alt(k) >= 0}))

\* A match: its index, its end (lastIndex after it) and the bounds of the
\* text the extractor takes from it; end = -1 when there is no match.
NoMatch == [index |-> -1, end |-> -1, from |-> -1, to |-> -1]

\* a match whose match[0] is the text taken
WholeMatch(i, end) == [index |-> i, end |-> end, from |-> i, to |-> end]

\* The six patterns of extractFromStylus, all /gi; the text taken is
\* match[2] || match[1] || match[0].

\* (#[0-9a-f]{3,8}|rgb\([^)]+\)|rgba\([^)]+\)|hsl\([^)]+\)|hsla\([^)]+\)|[a-z]+)\s*$
\* at v: the end of the group, or -1.  The group must be followed by
\* nothing but space, so no shorter repetition can succeed.
StylusValue(s, v) ==
    LET low == toLowerCase(s)
        AtEnd(e) == e >= 0 /\ SkipClass(s, e, WhiteSpace) = Len(s)
        Func(name) == UpTo(low, Lit(low, v, name), {")"})
    IN  IF /\ Lit(s, v, <<"#">>) >= 0
           /\ SkipClass(low, v + 1, HexDigits) - (v + 1) \in 3..8
           /\ AtEnd(SkipClass(low, v + 1, HexDigits))
        THEN SkipClass(low, v + 1, HexDigits)
        ELSE IF AtEnd(Func(<<"r", "g", "b", "(">>)) THEN Func(<<"r", "g", "b", "(">>)
        ELSE IF AtEnd(Func(<<"r", "g", "b", "a", "(">>)) THEN Func(<<"r", "g", "b", "a", "(">>)
        ELSE IF AtEnd(Func(<<"h", "s", "l", "(">>)) THEN Func(<<"h", "s", "l", "(">>)
        ELSE IF AtEnd(Func(<<"h", "s", "l", "a", "(">>)) THEN Func(<<"h", "s", "l", "a", "(">>)
        ELSE IF AtEnd(Plus(low, v, LowerLetters)) THEN Plus(low, v, LowerLetters)
        ELSE -1

\* ([\w-]+|\$[\w-]+)\s*[=:]\s*  at n: where the value group starts, or -1
StylusName(s, n) ==
    Star(s, One(s, Star(s, Plus(s, IF Lit(s, n, <<"$">>) >= 0 THEN n + 1 ELSE n,
                                WordChars \cup {"-"}),
                        WhiteSpace),
                {"=", ":"}),
         WhiteSpace)

\* the match at i whose name group starts at n
StylusAssignment(s, i, n) ==
    IF StylusName(s, n) >= 0 /\ StylusValue(s, StylusName(s, n)) >= 0
    THEN [index |-> i, end |-> Len(s), from |-> StylusName(s, n),
          to |-> StylusValue(s, StylusName(s, n))]
    ELSE NoMatch

\* /(?:^|\s)([\w-]+|\$[\w-]+)\s*[=:]\s*(#[0-9a-f]{3,8}|rgb\([^)]+\)|
\*   rgba\([^)]+\)|hsl\([^)]+\)|hsla\([^)]+\)|[a-z]+)\s*$/gim
StylusVariable(s, i) ==
    IF i = 0 /\ StylusAssignment(s, 0, 0).end >= 0 THEN StylusAssignment(s, 0, 0)
    ELSE IF One(s, i, WhiteSpace) >= 0 THEN StylusAssignment(s, i, i + 1)
    ELSE NoMatch

\* the first of the words that stands at i (lower case), or -1 for its end
Keyword(s, i, words) ==
    IF \A k \in DOMAIN words : LitI(s, i, words[k]) < 0 THEN -1
    ELSE LitI(s, i, words[SetMin({k \in DOMAIN words :
                                      LitI(s, i, words[k]) >= 0})])

\* \s*([^stops]+) from p, the space after an optional opening character
\* included in p > floor: where the group starts.  When the greedy \s* has
\* left the group no character of its own, the regex backs up one step and
\* the group is the last space.
GroupAfterSpace(s, floor, p, stops) ==
    IF p < Len(s) /\ s[p + 1] \notin stops THEN p
    ELSE IF p > floor THEN p - 1
    ELSE -1

\* /(?:color|background|border|outline|box-shadow|text-shadow)\s*:?\s*([^;\n]+)/gi
\* Without a character for the group after the colon, the regex goes
\* without the colon and the group starts with it.
StylusProperty(s, i) ==
    LET kw  == Keyword(s, i, <<<<"c", "o", "l", "o", "r">>, <<"b", "a", "c", "k", "g", "r", "o", "u", "n", "d">>, <<"b", "o", "r", "d", "e", "r">>, <<"o", "u", "t", "l", "i", "n", "e">>,
                               <<"b", "o", "x", "-", "s", "h", "a", "d", "o", "w">>, <<"t", "e", "x", "t", "-", "s", "h", "a", "d", "o", "w">>>>)
        sp  == Star(s, kw, WhiteSpace)
        col == Lit(s, sp, <<":">>)
        g   == IF col >= 0
               THEN IF GroupAfterSpace(s, col, Star(s, col, WhiteSpace),
                                       {";", "\n"}) >= 0
                    THEN GroupAfterSpace(s, col, Star(s, col, WhiteSpace),
                                         {";", "\n"})
                    ELSE sp
               ELSE GroupAfterSpace(s, kw, sp, {";", "\n"})
    IN  IF kw < 0 \/ g < 0 THEN NoMatch
        ELSE [index |-> i, end |-> SkipNot(s, g + 1, {";", "\n"}), from |-> g,
              to |-> SkipNot(s, g + 1, {";", "\n"})]

\* /(?:lighten|darken|saturate|desaturate|adjust-hue|mix|rgba)\s*\(\s*([^,)]+)/gi
StylusFunction(s, i) ==
    LET open == Lit(s, Star(s, Keyword(s, i, <<<<"l", "i", "g", "h", "t", "e", "n">>, <<"d", "a", "r", "k", "e", "n">>, <<"s", "a", "t", "u", "r", "a", "t", "e">>,
                                               <<"d", "e", "s", "a", "t", "u", "r", "a", "t", "e">>, <<"a", "d", "j", "u", "s", "t", "-", "h", "u", "e">>,
                                               <<"m", "i", "x">>, <<"r", "g", "b", "a">>>>),
                            WhiteSpace), <<"(">>)
        g    == IF open < 0 THEN -1
                ELSE GroupAfterSpace(s, open, Star(s, open, WhiteSpace),
                                     {",", ")"})
    IN  IF g < 0 THEN NoMatch
        ELSE [index |-> i, end |-> SkipNot(s, g + 1, {",", ")"}), from |-> g,
              to |-> SkipNot(s, g + 1, {",", ")"})]

\* /#[0-9a-f]{3,8}/gi
StylusHex(s, i) ==
    LET run == SkipClass(s, i + 1, HexDigits) - (i + 1)
    IN  IF Lit(s, i, <<"#">>) >= 0 /\ run >= 3
        THEN WholeMatch(i, i + 1 + (IF run > 8 THEN 8 ELSE run))
        ELSE NoMatch

\* /rgba?\s*\([^)]+\)/gi and /hsla?\s*\([^)]+\)/gi
StylusCall(s, i, name) ==
    LET n == LitI(s, i, name)
        a == IF LitI(s, n, <<"a">>) >= 0 THEN n + 1 ELSE n
    IN  WholeMatch(i, UpTo(s, Lit(s, Star(s, a, WhiteSpace), <<"(">>), {")"}))

\* the patterns array of extractFromStylus, in order
StylusPatterns ==
    <<"ST_VARIABLE", "ST_PROPERTY", "ST_FUNCTION", "ST_HEX", "ST_RGB", "ST_HSL">>

\* /style\s*=\s*[\x22']([^\x22']+)[\x22']/gi  (html.ts and svg.ts, in line.match)
STYLE_ATTR(s, i) ==
    UpTo(s, One(s, Star(s, Lit(s, Star(s, LitI(s, i, <<"s", "t", "y", "l", "e">>), WhiteSpace),
                               <<"=">>),
                        WhiteSpace),
                Quotes),
         Quotes)

\* the match of pattern pat that starts at i
MatchAt(pat, s, i) ==
    CASE pat = "HEX"  -> WholeMatch(i, HEX_PATTERN(s, i))
      [] pat = "RGB"  -> WholeMatch(i, RGB_PATTERN(s, i))
      [] pat = "RGBA" -> WholeMatch(i, RGBA_PATTERN(s, i))
      [] pat = "HSL"  -> WholeMatch(i, HSL_PATTERN(s, i))
      [] pat = "HSLA" -> WholeMatch(i, HSLA_PATTERN(s, i))
      [] pat = "STYLE_ATTR" -> WholeMatch(i, STYLE_ATTR(s, i))
      [] pat = "STRING" -> WholeMatch(i, STRING_COLOR_PATTERN(s, i))
      [] pat = "SVG_ATTR" -> WholeMatch(i, SVG_COLOR_ATTRIBUTES(s, i))
      [] pat = "ST_VARIABLE" -> StylusVariable(s, i)
      [] pat = "ST_PROPERTY" -> StylusProperty(s, i)
      [] pat = "ST_FUNCTION" -> StylusFunction(s, i)
      [] pat = "ST_HEX"      -> StylusHex(s, i)
      [] pat = "ST_RGB"      -> StylusCall(s, i, <<"r", "g", "b">>)
      [] pat = "ST_HSL"      -> StylusCall(s, i, <<"h", "s", "l">>)

-----------------------------------------------------------------------------
(* RegExp.prototype.exec on a /g object, and the loop                      *)
(*     while ((match = PATTERN.exec(line)) !== null) { ... }                *)
(*                                                                         *)
(* A runtime exception is an input of a call: fault = [line, at] makes the *)
(* exec call number at+1 on that line throw (at = the exec calls on the    *)
(* line that came back before it).  budget counts down to that call; a     *)
(* line without a fault starts at -1 and never reaches 0.  There is no     *)
(* line 0: NoFault is a call in which nothing throws.                      *)

NoFault == [line |-> 0, at |-> 0]

\* the first match of pat at an index >= from
RECURSIVE FindFrom(_, _, _)
FindFrom(pat, s, from) ==
    IF from >= Len(s) THEN NoMatch
    ELSE IF MatchAt(pat, s, from).end >= 0 THEN MatchAt(pat, s, from)
    ELSE FindFrom(pat, s, from + 1)

\* The loop run to its end, or to the exec call that throws.  A failed exec
\* sets lastIndex to 0, a match sets it to the end of the match, an exec
\* that throws leaves it as it was.
RECURSIVE ExecLoop(_, _, _, _)
ExecLoop(pat, s, lastIndex, budget) ==
    IF budget = 0
    THEN [matches |-> <<>>, lastIndex |-> lastIndex, threw |-> TRUE, budget |-> 0]
    ELSE Let(FindFrom(pat, s, lastIndex), LAMBDA m :
             IF m.end < 0
             THEN [matches |-> <<>>, lastIndex |-> 0, threw |-> FALSE,
                   budget |-> budget - 1]
             ELSE [ExecLoop(pat, s, m.end, budget - 1) EXCEPT
                       !.matches = <<m>> \o @])

\* the budget a line starts with
LineBudget(fault, lineIndex) ==
    IF fault.line = lineIndex + 1 THEN fault.at ELSE -1

-----------------------------------------------------------------------------
(* utils/colorConversion.ts                                                *)

detectColorFormat(colorValue) ==
    LET trimmed == Trim(colorValue)
    IN  IF StartsWith(trimmed, <<"#">>) THEN "hex"
        ELSE IF StartsWith(trimmed, <<"r", "g", "b", "(">>) THEN "rgb"
        ELSE IF StartsWith(trimmed, <<"r", "g", "b", "a", "(">>) THEN "rgba"
        ELSE IF StartsWith(trimmed, <<"h", "s", "l", "(">>) THEN "hsl"
        ELSE IF StartsWith(trimmed, <<"h", "s", "l", "a", "(">>) THEN "hsla"
        ELSE "unknown"

\* a Color as the extractors build it
Color(value, format, line, column, context) ==
    [value |-> value, format |-> format,
     position |-> [line |-> line, column |-> column], context |-> context]

-----------------------------------------------------------------------------
(* One pass of a pattern over a text, as every extractor writes it:        *)
(*     PATTERN.lastIndex = 0            (not in javascript.ts)             *)
(*     while ((match = PATTERN.exec(text)) !== null)                       *)
(*         if (<keep>) colors.push({ value: match[0], ... })               *)
(* st = [colors, idx, budget, threw]; idx is the lastIndex of the module's *)
(* pattern objects.  A match the loop saw before the throwing exec has     *)
(* been pushed.                                                            *)

\* what the loop body pushes for the matches from the k-th on
RECURSIVE PushAll(_, _, _)
PushAll(matches, Push(_), k) ==
    IF k > Len(matches) THEN <<>>
    ELSE Push(matches[k]) \o PushAll(matches, Push, k + 1)

Pass(st, pat, text, reset, Push(_)) ==
    IF st.threw THEN st
    ELSE Let(ExecLoop(pat, text, IF reset THEN 0 ELSE st.idx[pat], st.budget),
             LAMBDA r :
                 [colors |-> st.colors \o PushAll(r.matches, Push, 1),
                  idx    |-> [st.idx EXCEPT ![pat] = r.lastIndex],
                  budget |-> r.budget,
                  threw  |-> r.threw])

\* the hex, rgb, rgba, hsl and hsla passes, in that order, each pushing
\* match[0] at column match.index + 1 when Keep(match.index)
RECURSIVE ColorPasses(_, _, _, _, _, _, _)
ColorPasses(st, k, text, reset, Keep(_), lineNumber, context) ==
    IF k > Len(ColorPatterns) THEN st
    ELSE ColorPasses(
             Pass(st, ColorPatterns[k], text, reset,
                  LAMBDA m :
                      LET value == Substring(text, m.index, m.end)
                      IN  IF Keep(m.index)
                          THEN <<Color(value, detectColorFormat(value),
                                       lineNumber, m.index + 1, context)>>
                          ELSE <<>>),
             k + 1, text, reset, Keep, lineNumber, context)

\* lines.forEach(callback).  Without a try/catch in the callback an
\* exception leaves the loop and the function; with one (svg.ts) the rest of
\* the line is skipped and the loop goes on.
RECURSIVE ForEachLine(_, _, _, _, _, _)
ForEachLine(lines, k, st, fault, Callback(_, _, _), catches) ==
    IF k > Len(lines) \/ st.threw THEN st
    ELSE LET after == Callback([st EXCEPT !.budget = LineBudget(fault, k - 1)],
                               lines[k], k - 1)
         IN  ForEachLine(lines, k + 1,
                         IF catches THEN [after EXCEPT !.threw = FALSE]
                         ELSE after,
                         fault, Callback, catches)

\* the scan state a call starts with
StartScan(idx) ==
    [colors |-> <<>>, idx |-> idx, budget |-> -1, threw |-> FALSE]

\* what a call hands back: an exception loses the local colors array
Finish(st) ==
    [threw |-> st.threw, colors |-> IF st.threw THEN <<>> ELSE st.colors,
     idx |-> st.idx]

-----------------------------------------------------------------------------
(* extraction/formats/css.ts                                               *)

\* isInComment(line, index)
isInComment(line, index) ==
    LET before == Substring(line, 0, index)
    IN  LastIndexOf(before, <<"/", "*">>) > LastIndexOf(before, <<"*", "/">>)

\* the forEach callback on one line
CssLine(st, line, lineIndex) ==
    ColorPasses(st, 1, line, TRUE, LAMBDA index : ~isInComment(line, index),
                lineIndex + 1, Trim(line))


\* extractFromCss(content)
extractFromCss(text, idx, fault) ==
    Finish(ForEachLine(Split(text), 1, StartScan(idx), fault, CssLine, FALSE))

-----------------------------------------------------------------------------
(* extraction/formats/html.ts                                              *)

\* extractColorsFromStyleContent(styleContent, lineNumber, colors, context)
extractColorsFromStyleContent(st, styleContent, lineNumber, context) ==
    ColorPasses(st, 1, styleContent, TRUE, LAMBDA index : TRUE,
                lineNumber, context)

\* the group [\x22']([^\x22']+)[\x22'] of a match that holds no quote before it
Quoted(m) == Substring(m, SkipNot(m, 0, Quotes) + 1, Len(m) - 1)

\* line.match(/style.../gi), and for (const match of styleAttrMatch):
\*   styleContent = match.match(/[\x22']([^\x22']+)[\x22']/)?.[1]
\*   extractColorsFromStyleContent(styleContent, ...)
\* The first quote of a match is the one that opens its value.
RECURSIVE StyleAttrs(_, _, _, _, _, _)
StyleAttrs(st, line, styleAttrMatch, k, lineNumber, context) ==
    IF k > Len(styleAttrMatch) THEN st
    ELSE StyleAttrs(
             extractColorsFromStyleContent(
                 st,
                 Quoted(Substring(line, styleAttrMatch[k].index,
                                  styleAttrMatch[k].end)),
                 lineNumber, context),
             line, styleAttrMatch, k + 1, lineNumber, context)

\* <style> and </style> lines are scanned whole
StyleTagLine(st, line, lineNumber) ==
    IF Includes(line, <<"<", "s", "t", "y", "l", "e">>) \/ Includes(line, <<"<", "/", "s", "t", "y", "l", "e", ">">>)
    THEN extractColorsFromStyleContent(st, line, lineNumber, Trim(line))
    ELSE st

cssPropertyKeywords ==
    {<<"c", "o", "l", "o", "r">>, <<"b", "a", "c", "k", "g", "r", "o", "u", "n", "d">>, <<"b", "o", "r", "d", "e", "r">>, <<"f", "i", "l", "l">>, <<"s", "t", "r", "o", "k", "e">>, <<"b", "o", "x", "-", "s", "h", "a", "d", "o", "w">>,
     <<"t", "e", "x", "t", "-", "s", "h", "a", "d", "o", "w">>}

\* isHtmlStyleContext(line, matchIndex)
isHtmlStyleContext(line, matchIndex) ==
    LET beforeMatch == Substring(line, 0, matchIndex)
        \* /style\s*=\s*[\x22'][^\x22']*$/
        styleAttrPattern ==
            \E i \in 0..Len(beforeMatch) :
                StarNot(beforeMatch,
                        One(beforeMatch,
                            Star(beforeMatch,
                                 Lit(beforeMatch,
                                     Star(beforeMatch,
                                          Lit(beforeMatch, i, <<"s", "t", "y", "l", "e">>),
                                          WhiteSpace),
                                     <<"=">>),
                                 WhiteSpace),
                            Quotes),
                        Quotes) = Len(beforeMatch)
        \* /<style[^>]*>/
        styleTagPattern ==
            \E i \in 0..Len(line) :
                /\ Lit(line, i, <<"<", "s", "t", "y", "l", "e">>) >= 0
                /\ SkipNot(line, i + 6, {">"}) < Len(line)
        \* /(color|background|border|fill|stroke|box-shadow|text-shadow)\s*:\s*[^;]*$/
        cssPropertyPattern ==
            \E i \in 0..Len(beforeMatch) : \E kw \in cssPropertyKeywords :
                StarNot(beforeMatch,
                        Star(beforeMatch,
                             Lit(beforeMatch,
                                 Star(beforeMatch, Lit(beforeMatch, i, kw),
                                      WhiteSpace),
                                 <<":">>),
                             WhiteSpace),
                        {";"}) = Len(beforeMatch)
    IN  IF \/ StartsWith(Trim(line), <<"<", "!", "-", "-">>)
           \/ Includes(Trim(line), <<"<", "!", "-", "-">>)
        THEN FALSE
        ELSE IF styleAttrPattern THEN TRUE
        ELSE IF styleTagPattern THEN TRUE
        ELSE cssPropertyPattern

\* the forEach callback on one line
HtmlLine(st, line, lineIndex) ==
    IF StartsWith(Trim(line), <<"<", "!", "-", "-">>) THEN st
    ELSE ColorPasses(
             StyleTagLine(
                 StyleAttrs(st, line, ExecLoop("STYLE_ATTR", line, 0, -1).matches,
                            1, lineIndex + 1, Trim(line)),
                 line, lineIndex + 1),
             1, line, TRUE, LAMBDA index : isHtmlStyleContext(line, index),
             lineIndex + 1, Trim(line))

\* a number in a template literal: its decimal digits
RECURSIVE Decimal(_)
Decimal(n) ==
    IF n < 10 THEN <<DigitSeq[n + 1]>>
    ELSE Decimal(n \div 10) \o <<DigitSeq[(n % 10) + 1]>>

\* `${c.value}-${c.position?.line ?? 0}`
DedupKey(c) == c.value \o <<"-">> \o Decimal(c.position.line)

\* Array.from(new Map(colors.map((c) => [key, c])).values()): a Map keeps
\* a key at the place of its first entry and holds its last entry's value.
\* the list as the line passes left it, every entry kept
uniqueColorsKeepingAll(colors) == colors

uniqueColors(colors) ==
    LET first == {k \in 1..Len(colors) :
                     \A j \in 1..(k - 1) : DedupKey(colors[j]) # DedupKey(colors[k])}
        Last(k) == SetMax({j \in 1..Len(colors) :
                              DedupKey(colors[j]) = DedupKey(colors[k])})
        Values[k \in 1..(Len(colors) + 1)] ==
            IF k > Len(colors) THEN <<>>
            ELSE IF k \in first THEN <<colors[Last(k)]>> \o Values[k + 1]
            ELSE Values[k + 1]
    IN  Values[1]

\* what a call with the closing dedup hands back
FinishUnique(st) ==
    [threw |-> st.threw,
     colors |-> IF st.threw THEN <<>> ELSE uniqueColors(st.colors),
     idx |-> st.idx]

\* extractFromHtml(content)
extractFromHtml(text, idx, fault) ==
    FinishUnique(ForEachLine(Split(text), 1, StartScan(idx), fault, HtmlLine,
                             FALSE))

-----------------------------------------------------------------------------
(* extraction/formats/javascript.ts                                        *)

\* parseColor(colorValue) !== null  (utils/colorConversion.ts): parseHex
\* looks at the length alone, parseRgb and parseHsl search the string
parseColorNotNull(colorValue) ==
    LET trimmed == Trim(colorValue)
        Found(name, percent) ==
            \E i \in 0..Len(trimmed) :
                \/ FuncPattern(trimmed, i, name \o <<"a">>, percent, "optional") >= 0
                \/ FuncPattern(trimmed, i, name, percent, "optional") >= 0
    IN  IF StartsWith(trimmed, <<"#">>) THEN Len(trimmed) - 1 \in {3, 6, 8}
        ELSE IF StartsWith(trimmed, <<"r", "g", "b">>) THEN Found(<<"r", "g", "b">>, FALSE)
        ELSE IF StartsWith(trimmed, <<"h", "s", "l">>) THEN Found(<<"h", "s", "l">>, TRUE)
        ELSE FALSE

styleKeywords ==
    {<<"c", "o", "l", "o", "r", ":">>, <<"b", "a", "c", "k", "g", "r", "o", "u", "n", "d", ":">>, <<"b", "o", "r", "d", "e", "r", ":">>, <<"b", "o", "x", "-", "s", "h", "a", "d", "o", "w", ":">>, <<"t", "e", "x", "t", "-", "s", "h", "a", "d", "o", "w", ":">>,
     <<"f", "i", "l", "l", ":">>, <<"s", "t", "r", "o", "k", "e", ":">>, <<"t", "h", "e", "m", "e", ":">>, <<"p", "a", "l", "e", "t", "t", "e", ":">>, <<"s", "t", "y", "l", "e", ":">>, <<"s", "t", "y", "l", "e", "s", ":">>,
     <<"c", "o", "l", "o", "r", "s", ":">>, <<"b", "a", "c", "k", "g", "r", "o", "u", "n", "d", "C", "o", "l", "o", "r", ":">>, <<"b", "o", "r", "d", "e", "r", "C", "o", "l", "o", "r", ":">>, <<"t", "e", "x", "t", "C", "o", "l", "o", "r", ":">>,
     <<"f", "i", "l", "l", "C", "o", "l", "o", "r", ":">>, <<"s", "t", "r", "o", "k", "e", "C", "o", "l", "o", "r", ":">>, <<"c", "o", "l", "o", "r", "S", "c", "h", "e", "m", "e", ":">>, <<"c", "s", "s", ":">>, <<"s", "t", "y", "l", "e", "d">>, <<"t", "h", "e", "m", "e">>}

cssInJsPatterns ==
    {<<"c", "s", "s", "BACKTICK">>, <<"s", "t", "y", "l", "e", "d", ".">>, <<"c", "r", "e", "a", "t", "e", "S", "t", "y", "l", "e", "s">>, <<"m", "a", "k", "e", "S", "t", "y", "l", "e", "s">>, <<"u", "s", "e", "S", "t", "y", "l", "e", "s">>, <<"e", "m", "o", "t", "i", "o", "n">>,
     <<"s", "t", "y", "l", "e", "d", "-", "c", "o", "m", "p", "o", "n", "e", "n", "t", "s">>, <<"t", "h", "e", "m", "e", ".">>, <<"c", "o", "l", "o", "r", "s", ".">>}

\* isStyleContext(line, matchIndex)
isStyleContext(line, matchIndex) ==
    LET trimmedLine == Trim(line)
        beforeMatch == Substring(line, 0, matchIndex)
        lower       == toLowerCase(line)
        hasStyleKeyword ==
            \E keyword \in styleKeywords : Includes(lower, toLowerCase(keyword))
        hasCssInJs == \E pattern \in cssInJsPatterns : Includes(line, pattern)
        \* /{[^}]*$/
        objectPattern ==
            \E i \in 0..Len(beforeMatch) :
                /\ Lit(beforeMatch, i, <<"{">>) >= 0
                /\ SkipNot(beforeMatch, i + 1, {"}"}) = Len(beforeMatch)
        \* /(...)\s*:/ and /(...)\s*[.:]/
        Named(names, after) ==
            \E i \in 0..Len(line) : \E name \in names :
                One(line, Star(line, Lit(line, i, name), WhiteSpace), after) >= 0
        stylePropertyPattern ==
            Named({<<"c", "o", "l", "o", "r">>, <<"b", "a", "c", "k", "g", "r", "o", "u", "n", "d">>, <<"b", "o", "r", "d", "e", "r">>, <<"f", "i", "l", "l">>, <<"s", "t", "r", "o", "k", "e">>, <<"t", "h", "e", "m", "e">>,
                   <<"p", "a", "l", "e", "t", "t", "e">>, <<"s", "t", "y", "l", "e">>, <<"c", "o", "l", "o", "r", "s">>}, {":"})
        \* /(const|let|var)\s+(color|style|theme|palette|css)\w*\s*=/
        styleVarPattern ==
            \E i \in 0..Len(line) : \E decl \in {<<"c", "o", "n", "s", "t">>, <<"l", "e", "t">>, <<"v", "a", "r">>} :
                \E name \in {<<"c", "o", "l", "o", "r">>, <<"s", "t", "y", "l", "e">>, <<"t", "h", "e", "m", "e">>, <<"p", "a", "l", "e", "t", "t", "e">>, <<"c", "s", "s">>} :
                    Lit(line,
                        Star(line,
                             Star(line,
                                  Lit(line, Plus(line, Lit(line, i, decl),
                                                 WhiteSpace), name),
                                  WordChars),
                             WhiteSpace),
                        <<"=">>) >= 0
        themeContextPattern ==
            Named({<<"t", "h", "e", "m", "e">>, <<"c", "o", "l", "o", "r", "s">>, <<"p", "a", "l", "e", "t", "t", "e">>, <<"s", "t", "y", "l", "e">>}, {".", ":"})
    IN  IF Includes(beforeMatch, <<"/", "/">>) THEN FALSE
        ELSE IF LastIndexOf(beforeMatch, <<"/", "*">>) > LastIndexOf(beforeMatch, <<"*", "/">>)
        THEN FALSE
        ELSE IF \/ StartsWith(trimmedLine, <<"/", "/">>)
                \/ StartsWith(trimmedLine, <<"/", "*">>)
                \/ StartsWith(trimmedLine, <<"*">>)
        THEN FALSE
        ELSE IF hasStyleKeyword THEN TRUE
        ELSE IF hasCssInJs THEN TRUE
        ELSE IF objectPattern /\ stylePropertyPattern THEN TRUE
        ELSE IF styleVarPattern THEN TRUE
        ELSE themeContextPattern

\* The forEach callback on one line: the five color loops and the string
\* literal loop.  No loop sets lastIndex before it starts.
JavaScriptLine(st, line, lineIndex) ==
    Pass(ColorPasses(st, 1, line, FALSE,
                     LAMBDA index : isStyleContext(line, index),
                     lineIndex + 1, Trim(line)),
         "STRING", line, FALSE,
         LAMBDA m :
             LET stringValue == Substring(line, m.index + 1, m.end - 1)
             IN  IF /\ stringValue # <<>>
                    /\ parseColorNotNull(stringValue)
                    /\ isStyleContext(line, m.index)
                 THEN <<Color(stringValue, detectColorFormat(stringValue),
                              lineIndex + 1, m.index + 1, Trim(line))>>
                 ELSE <<>>)

\* extractFromJavaScript(content)
extractFromJavaScript(text, idx, fault) ==
    FinishUnique(ForEachLine(Split(text), 1, StartScan(idx), fault,
                             JavaScriptLine, FALSE))

-----------------------------------------------------------------------------
(* extraction/formats/svg.ts                                               *)

svgNamedColors ==
    {<<"n", "o", "n", "e">>, <<"t", "r", "a", "n", "s", "p", "a", "r", "e", "n", "t">>, <<"c", "u", "r", "r", "e", "n", "t", "C", "o", "l", "o", "r">>, <<"b", "l", "a", "c", "k">>, <<"w", "h", "i", "t", "e">>, <<"r", "e", "d">>, <<"g", "r", "e", "e", "n">>,
     <<"b", "l", "u", "e">>, <<"y", "e", "l", "l", "o", "w">>, <<"c", "y", "a", "n">>, <<"m", "a", "g", "e", "n", "t", "a">>, <<"g", "r", "a", "y">>, <<"g", "r", "e", "y">>, <<"o", "r", "a", "n", "g", "e">>, <<"p", "u", "r", "p", "l", "e">>,
     <<"p", "i", "n", "k">>, <<"b", "r", "o", "w", "n">>}

\* isValidColor(value) of svg.ts
isValidSvgColor(value) ==
    \/ /\ StartsWith(value, <<"#">>)
       /\ Len(value) - 1 \in 3..8
       /\ SkipClass(value, 1, HexDigits) = Len(value)
    \/ toLowerCase(value) \in svgNamedColors
    \/ StartsWith(value, <<"r", "g", "b">>)
    \/ StartsWith(value, <<"h", "s", "l">>)
    \/ StartsWith(value, <<"u", "r", "l", "(">>)
    \/ StartsWith(value, <<"i", "n", "h", "e", "r", "i", "t">>)

\* the body of the try block on one line
SvgLine(st, line, lineIndex) ==
    IF StartsWith(Trim(line), <<"<", "!", "-", "-">>) THEN st
    ELSE ColorPasses(
             StyleTagLine(
                 StyleAttrs(
                     Pass(st, "SVG_ATTR", line, TRUE,
                          LAMBDA m :
                              LET colorValue ==
                                      Quoted(Substring(line, m.index, m.end))
                              IN  IF isValidSvgColor(colorValue)
                                  THEN <<Color(colorValue,
                                               detectColorFormat(colorValue),
                                               lineIndex + 1, m.index + 1,
                                               Trim(line))>>
                                  ELSE <<>>),
                     line, ExecLoop("STYLE_ATTR", line, 0, -1).matches, 1,
                     lineIndex + 1, Trim(line)),
                 line, lineIndex + 1),
             1, line, TRUE, LAMBDA index : TRUE, lineIndex + 1, Trim(line))

\* extractFromSvg(content): the callback catches what its line throws
extractFromSvg(text, idx, fault) ==
    FinishUnique(ForEachLine(Split(text), 1, StartScan(idx), fault, SvgLine,
                             TRUE))

-----------------------------------------------------------------------------
(* extraction/formats/stylus.ts                                            *)

namedColors ==
    {<<"a", "l", "i", "c", "e", "b", "l", "u", "e">>, <<"a", "n", "t", "i", "q", "u", "e", "w", "h", "i", "t", "e">>, <<"a", "q", "u", "a">>, <<"a", "q", "u", "a", "m", "a", "r", "i", "n", "e">>, <<"a", "z", "u", "r", "e">>, <<"b", "e", "i", "g", "e">>,
     <<"b", "i", "s", "q", "u", "e">>, <<"b", "l", "a", "c", "k">>, <<"b", "l", "a", "n", "c", "h", "e", "d", "a", "l", "m", "o", "n", "d">>, <<"b", "l", "u", "e">>, <<"b", "l", "u", "e", "v", "i", "o", "l", "e", "t">>, <<"b", "r", "o", "w", "n">>,
     <<"b", "u", "r", "l", "y", "w", "o", "o", "d">>, <<"c", "a", "d", "e", "t", "b", "l", "u", "e">>, <<"c", "h", "a", "r", "t", "r", "e", "u", "s", "e">>, <<"c", "h", "o", "c", "o", "l", "a", "t", "e">>, <<"c", "o", "r", "a", "l">>,
     <<"c", "o", "r", "n", "f", "l", "o", "w", "e", "r", "b", "l", "u", "e">>, <<"c", "o", "r", "n", "s", "i", "l", "k">>, <<"c", "r", "i", "m", "s", "o", "n">>, <<"c", "y", "a", "n">>, <<"d", "a", "r", "k", "b", "l", "u", "e">>,
     <<"d", "a", "r", "k", "c", "y", "a", "n">>, <<"d", "a", "r", "k", "g", "o", "l", "d", "e", "n", "r", "o", "d">>, <<"d", "a", "r", "k", "g", "r", "a", "y">>, <<"d", "a", "r", "k", "g", "r", "e", "e", "n">>, <<"d", "a", "r", "k", "k", "h", "a", "k", "i">>,
     <<"d", "a", "r", "k", "m", "a", "g", "e", "n", "t", "a">>, <<"d", "a", "r", "k", "o", "l", "i", "v", "e", "g", "r", "e", "e", "n">>, <<"d", "a", "r", "k", "o", "r", "a", "n", "g", "e">>, <<"d", "a", "r", "k", "o", "r", "c", "h", "i", "d">>,
     <<"d", "a", "r", "k", "r", "e", "d">>, <<"d", "a", "r", "k", "s", "a", "l", "m", "o", "n">>, <<"d", "a", "r", "k", "s", "e", "a", "g", "r", "e", "e", "n">>, <<"d", "a", "r", "k", "s", "l", "a", "t", "e", "b", "l", "u", "e">>,
     <<"d", "a", "r", "k", "s", "l", "a", "t", "e", "g", "r", "a", "y">>, <<"d", "a", "r", "k", "t", "u", "r", "q", "u", "o", "i", "s", "e">>, <<"d", "a", "r", "k", "v", "i", "o", "l", "e", "t">>, <<"d", "e", "e", "p", "p", "i", "n", "k">>,
     <<"d", "e", "e", "p", "s", "k", "y", "b", "l", "u", "e">>, <<"d", "i", "m", "g", "r", "a", "y">>, <<"d", "o", "d", "g", "e", "r", "b", "l", "u", "e">>, <<"f", "i", "r", "e", "b", "r", "i", "c", "k">>, <<"f", "l", "o", "r", "a", "l", "w", "h", "i", "t", "e">>,
     <<"f", "o", "r", "e", "s", "t", "g", "r", "e", "e", "n">>, <<"f", "u", "c", "h", "s", "i", "a">>, <<"g", "a", "i", "n", "s", "b", "o", "r", "o">>, <<"g", "h", "o", "s", "t", "w", "h", "i", "t", "e">>, <<"g", "o", "l", "d">>,
     <<"g", "o", "l", "d", "e", "n", "r", "o", "d">>, <<"g", "r", "a", "y">>, <<"g", "r", "e", "e", "n">>, <<"g", "r", "e", "e", "n", "y", "e", "l", "l", "o", "w">>, <<"h", "o", "n", "e", "y", "d", "e", "w">>, <<"h", "o", "t", "p", "i", "n", "k">>,
     <<"i", "n", "d", "i", "a", "n", "r", "e", "d">>, <<"i", "n", "d", "i", "g", "o">>, <<"i", "v", "o", "r", "y">>, <<"k", "h", "a", "k", "i">>, <<"l", "a", "v", "e", "n", "d", "e", "r">>, <<"l", "a", "v", "e", "n", "d", "e", "r", "b", "l", "u", "s", "h">>,
     <<"l", "a", "w", "n", "g", "r", "e", "e", "n">>, <<"l", "e", "m", "o", "n", "c", "h", "i", "f", "f", "o", "n">>, <<"l", "i", "g", "h", "t", "b", "l", "u", "e">>, <<"l", "i", "g", "h", "t", "c", "o", "r", "a", "l">>, <<"l", "i", "g", "h", "t", "c", "y", "a", "n">>,
     <<"l", "i", "g", "h", "t", "g", "o", "l", "d", "e", "n", "r", "o", "d", "y", "e", "l", "l", "o", "w">>, <<"l", "i", "g", "h", "t", "g", "r", "a", "y">>, <<"l", "i", "g", "h", "t", "g", "r", "e", "e", "n">>, <<"l", "i", "g", "h", "t", "p", "i", "n", "k">>,
     <<"l", "i", "g", "h", "t", "s", "a", "l", "m", "o", "n">>, <<"l", "i", "g", "h", "t", "s", "e", "a", "g", "r", "e", "e", "n">>, <<"l", "i", "g", "h", "t", "s", "k", "y", "b", "l", "u", "e">>, <<"l", "i", "g", "h", "t", "s", "l", "a", "t", "e", "g", "r", "a", "y">>,
     <<"l", "i", "g", "h", "t", "s", "t", "e", "e", "l", "b", "l", "u", "e">>, <<"l", "i", "g", "h", "t", "y", "e", "l", "l", "o", "w">>, <<"l", "i", "m", "e">>, <<"l", "i", "m", "e", "g", "r", "e", "e", "n">>, <<"l", "i", "n", "e", "n">>,
     <<"m", "a", "g", "e", "n", "t", "a">>, <<"m", "a", "r", "o", "o", "n">>, <<"m", "e", "d", "i", "u", "m", "a", "q", "u", "a", "m", "a", "r", "i", "n", "e">>, <<"m", "e", "d", "i", "u", "m", "b", "l", "u", "e">>, <<"m", "e", "d", "i", "u", "m", "o", "r", "c", "h", "i", "d">>,
     <<"m", "e", "d", "i", "u", "m", "p", "u", "r", "p", "l", "e">>, <<"m", "e", "d", "i", "u", "m", "s", "e", "a", "g", "r", "e", "e", "n">>, <<"m", "e", "d", "i", "u", "m", "s", "l", "a", "t", "e", "b", "l", "u", "e">>,
     <<"m", "e", "d", "i", "u", "m", "s", "p", "r", "i", "n", "g", "g", "r", "e", "e", "n">>, <<"m", "e", "d", "i", "u", "m", "t", "u", "r", "q", "u", "o", "i", "s", "e">>, <<"m", "e", "d", "i", "u", "m", "v", "i", "o", "l", "e", "t", "r", "e", "d">>,
     <<"m", "i", "d", "n", "i", "g", "h", "t", "b", "l", "u", "e">>, <<"m", "i", "n", "t", "c", "r", "e", "a", "m">>, <<"m", "i", "s", "t", "y", "r", "o", "s", "e">>, <<"m", "o", "c", "c", "a", "s", "i", "n">>, <<"n", "a", "v", "a", "j", "o", "w", "h", "i", "t", "e">>,
     <<"n", "a", "v", "y">>, <<"o", "l", "d", "l", "a", "c", "e">>, <<"o", "l", "i", "v", "e">>, <<"o", "l", "i", "v", "e", "d", "r", "a", "b">>, <<"o", "r", "a", "n", "g", "e">>, <<"o", "r", "a", "n", "g", "e", "r", "e", "d">>,
     <<"o", "r", "c", "h", "i", "d">>, <<"p", "a", "l", "e", "g", "o", "l", "d", "e", "n", "r", "o", "d">>, <<"p", "a", "l", "e", "g", "r", "e", "e", "n">>, <<"p", "a", "l", "e", "t", "u", "r", "q", "u", "o", "i", "s", "e">>,
     <<"p", "a", "l", "e", "v", "i", "o", "l", "e", "t", "r", "e", "d">>, <<"p", "a", "p", "a", "y", "a", "w", "h", "i", "p">>, <<"p", "e", "a", "c", "h", "p", "u", "f", "f">>, <<"p", "e", "r", "u">>, <<"p", "i", "n", "k">>, <<"p", "l", "u", "m">>,
     <<"p", "o", "w", "d", "e", "r", "b", "l", "u", "e">>, <<"p", "u", "r", "p", "l", "e">>, <<"r", "e", "d">>, <<"r", "o", "s", "y", "b", "r", "o", "w", "n">>, <<"r", "o", "y", "a", "l", "b", "l", "u", "e">>,
     <<"s", "a", "d", "d", "l", "e", "b", "r", "o", "w", "n">>, <<"s", "a", "l", "m", "o", "n">>, <<"s", "a", "n", "d", "y", "b", "r", "o", "w", "n">>, <<"s", "e", "a", "g", "r", "e", "e", "n">>, <<"s", "e", "a", "s", "h", "e", "l", "l">>,
     <<"s", "i", "e", "n", "n", "a">>, <<"s", "i", "l", "v", "e", "r">>, <<"s", "k", "y", "b", "l", "u", "e">>, <<"s", "l", "a", "t", "e", "b", "l", "u", "e">>, <<"s", "l", "a", "t", "e", "g", "r", "a", "y">>, <<"s", "n", "o", "w">>,
     <<"s", "p", "r", "i", "n", "g", "g", "r", "e", "e", "n">>, <<"s", "t", "e", "e", "l", "b", "l", "u", "e">>, <<"t", "a", "n">>, <<"t", "e", "a", "l">>, <<"t", "h", "i", "s", "t", "l", "e">>, <<"t", "o", "m", "a", "t", "o">>,
     <<"t", "u", "r", "q", "u", "o", "i", "s", "e">>, <<"v", "i", "o", "l", "e", "t">>, <<"w", "h", "e", "a", "t">>, <<"w", "h", "i", "t", "e">>, <<"w", "h", "i", "t", "e", "s", "m", "o", "k", "e">>, <<"y", "e", "l", "l", "o", "w">>,
     <<"y", "e", "l", "l", "o", "w", "g", "r", "e", "e", "n">>, <<"t", "r", "a", "n", "s", "p", "a", "r", "e", "n", "t">>}

\* isNamedColor(value)
isNamedColor(value) == toLowerCase(value) \in namedColors

\* isValidColorValue(value); the five anchored patterns are /i
isValidColorValue(value) ==
    LET low == toLowerCase(value)
        Whole(name, percent, alpha) ==
            FuncPattern(low, 0, name, percent, alpha) = Len(value)
        functions == {<<"r", "g", "b", "(">>, <<"r", "g", "b", "a", "(">>, <<"h", "s", "l", "(">>, <<"h", "s", "l", "a", "(">>}
    IN  /\ value # <<>>
        /\ ~(Includes(value, <<"(">>) /\ ~\E f \in functions : StartsWith(value, f))
        /\ \/ /\ StartsWith(value, <<"#">>)
              /\ Len(value) - 1 \in 3..8
              /\ SkipClass(value, 1, HexDigits) = Len(value)
           \/ Whole(<<"r", "g", "b">>, FALSE, "none")
           \/ Whole(<<"r", "g", "b", "a">>, FALSE, "required")
           \/ Whole(<<"h", "s", "l">>, TRUE, "none")
           \/ Whole(<<"h", "s", "l", "a">>, TRUE, "required")
           \/ isNamedColor(value)

\* determineColorFormat(value)
determineColorFormat(value) ==
    IF StartsWith(value, <<"#">>) THEN "hex"
    ELSE IF StartsWith(value, <<"r", "g", "b", "(">>) THEN "rgb"
    ELSE IF StartsWith(value, <<"r", "g", "b", "a", "(">>) THEN "rgba"
    ELSE IF StartsWith(value, <<"h", "s", "l", "(">>) THEN "hsl"
    ELSE IF StartsWith(value, <<"h", "s", "l", "a", "(">>) THEN "hsla"
    ELSE IF isNamedColor(value) THEN "named"
    ELSE "unknown"

\* `Stylus ${getContextType(line)}`
StylusContext(line) ==
    <<"S", "t", "y", "l", "u", "s", " ">> \o (IF Includes(line, <<"=">>) \/ Includes(line, <<"$">>) THEN <<"v", "a", "r", "i", "a", "b", "l", "e">>
                  ELSE IF Includes(line, <<"(", ")">>) \/ Includes(line, <<"(">>)
                  THEN <<"f", "u", "n", "c", "t", "i", "o", "n">>
                  ELSE IF Includes(line, <<":">>) THEN <<"p", "r", "o", "p", "e", "r", "t", "y">>
                  ELSE <<"d", "e", "c", "l", "a", "r", "a", "t", "i", "o", "n">>)

\* for (const pattern of patterns) { pattern.lastIndex = 0; while (...) }
RECURSIVE StylusPasses(_, _, _, _)
StylusPasses(st, k, line, lineIndex) ==
    IF k > Len(StylusPatterns) THEN st
    ELSE StylusPasses(
             Pass(st, StylusPatterns[k], line, TRUE,
                  LAMBDA m :
                      LET colorValue == Trim(Substring(line, m.from, m.to))
                      IN  IF isValidColorValue(colorValue)
                          THEN <<Color(colorValue,
                                       determineColorFormat(colorValue),
                                       lineIndex + 1, m.index,
                                       StylusContext(line))>>
                          ELSE <<>>),
             k + 1, line, lineIndex)

\* the body of the for loop over the lines
StylusLine(st, line, lineIndex) ==
    IF line = <<>> THEN st ELSE StylusPasses(st, 1, line, lineIndex)

\* extractFromStylus(content); its pattern objects are local to the call
extractFromStylus(text, fault) ==
    Finish(ForEachLine(Split(text), 1,
                       StartScan([p \in {StylusPatterns[k] :
                                         k \in DOMAIN StylusPatterns} |-> 0]),
                       fault, StylusLine, FALSE))

-----------------------------------------------------------------------------
(* extraction/extract.ts                                                   *)

\* formats/scss.ts and formats/less.ts: the grammar and comment rule of the
\* CSS extractor, with a runtime exception on a line swallowed and the line
\* skipped
extractFromSCSS(text, fault) ==
    Finish(ForEachLine(Split(text), 1,
                       StartScan([p \in {ColorPatterns[k] :
                                         k \in DOMAIN ColorPatterns} |-> 0]),
                       fault, CssLine, TRUE))

extractFromLESS(text, fault) == extractFromSCSS(text, fault)

\* determineFileType(languageId)
determineFileType(languageId) ==
    IF languageId \in {"css", "scss", "less", "stylus", "html", "javascript",
                       "typescript"}
    THEN languageId
    ELSE IF languageId \in {"xml", "svg"} THEN "svg"
    ELSE "unknown"

\* extractColorsByFileType(content, fileType, languageId), with the lastIndex
\* values r of the four modules that keep their patterns at module level
extractColorsByFileType(text, fileType, r, fault) ==
    LET Of(module, res) ==
            [threw |-> res.threw, colors |-> res.colors,
             regex |-> [r EXCEPT ![module] = res.idx]]
        Local(res) ==
            [threw |-> res.threw, colors |-> res.colors, regex |-> r]
    IN  CASE fileType = "css" ->
                 Of("css", extractFromCss(text, r.css, fault))
          [] fileType = "scss" -> Local(extractFromSCSS(text, fault))
          [] fileType = "less" -> Local(extractFromLESS(text, fault))
          [] fileType = "stylus" -> Local(extractFromStylus(text, fault))
          [] fileType = "html" ->
                 Of("html", extractFromHtml(text, r.html, fault))
          [] fileType \in {"javascript", "typescript"} ->
                 Of("javascript",
                      extractFromJavaScript(text, r.javascript, fault))
          [] fileType = "svg" ->
                 Of("svg", extractFromSvg(text, r.svg, fault))
          [] OTHER ->
                 Of("css", extractFromCss(text, r.css, fault))

\* performExtraction without a catch that records the error
performExtractionUnrecorded(text, fileType, r, fault) ==
    Let(extractColorsByFileType(text, fileType, r, fault), LAMBDA res :
        [colors |-> res.colors, errors |-> <<>>, warnings |-> <<>>,
         regex  |-> res.regex])

\* performExtraction(content, fileType, languageId, context): the context
\* after it, and the lastIndex values it leaves
performExtraction(text, fileType, r, fault) ==
    Let(extractColorsByFileType(text, fileType, r, fault), LAMBDA res :
        [colors |-> IF res.threw THEN <<>> ELSE res.colors,
         errors |-> IF res.threw THEN <<[type |-> "parse-error"]>> ELSE <<>>,
         warnings |-> <<>>,
         regex  |-> res.regex])

\* applyColorLimits(context, options); maxColors = 0 stands for an option
\* that is not set
applyColorLimits(context, maxColors) ==
    IF maxColors = 0 \/ Len(context.colors) <= maxColors THEN context
    ELSE [context EXCEPT
              !.warnings = Append(@, "runtime.extraction.color-limit"),
              !.colors = SubSeq(@, 1, maxColors)]

\* checkPerformanceLimits(context, startTime, options) with late = the
\* elapsed time is over the 30000 ms default by now; the model's documents
\* stay far below the 10000 colors of maxItems
checkPerformanceLimits(context, late) ==
    IF late
    THEN [context EXCEPT
              !.warnings = Append(@, "runtime.extraction.performance-cancelled")]
    ELSE context

\* buildExtractionResult(context, ...), without the optional metadata
buildExtractionResult(context) ==
    [success  |-> context.errors = <<>>,
     colors   |-> context.colors,
     errors   |-> context.errors,
     warnings |-> context.warnings]

\* createEmptyExtractionResult(...), without the optional metadata
createEmptyExtractionResult ==
    [success  |-> FALSE,
     colors   |-> <<>>,
     errors   |-> <<[type |-> "validation-error"]>>,
     warnings |-> <<>>]

\* extractColors(content, languageId, options) with options = {maxColors}.
\* clock tells when the elapsed time passes the 30000 ms default: "start"
\* before the first check, "end" before the last one, "never" otherwise.
\* Gives the resolved result and the lastIndex values left behind.
extractColors(text, languageId, maxColors, clock, r, fault) ==
    IF Trim(text) = <<>>
    THEN [result |-> createEmptyExtractionResult, regex |-> r]
    ELSE IF clock = "start"
    THEN [result |-> buildExtractionResult(
                         [colors |-> <<>>, errors |-> <<>>,
                          warnings |-> <<"runtime.extraction.cancelled">>]),
          regex |-> r]
    ELSE Let(performExtraction(text, determineFileType(languageId), r, fault),
             LAMBDA context :
                 [result |-> buildExtractionResult(
                                 checkPerformanceLimits(
                                     applyColorLimits(context, maxColors),
                                     clock = "end")),
                  regex |-> context.regex])

-----------------------------------------------------------------------------
(* The program as a state machine.  content is the document at hand, regex *)
(* the lastIndex of every pattern object kept at module level, out the     *)
(* outcome of the call that has just come back (NoCall between calls).     *)

\* the documents, in the order they are added to the pool
Documents ==
    <<<<".", "a", "{", "c", "o", "l", "o", "r", ":", "r", "g", "b", "(", "0", ",", "0", ",", "0", ")", ";", "b", "a", "c", "k", "g", "r", "o", "u", "n", "d", ":", "#", "f", "f", "f", "}">>,
      <<"<", "p", ">", "<", "!", "-", "-", " ", "<", "b", " ", "s", "t", "y", "l", "e", "=", "\"", "c", ":", "#", "0", "f", "0", "\"", ">", " ", "-", "-", ">", "\n", "<", "i", " ", "s", "t", "y", "l", "e", "=", "\"", "c", "o", "l", "o", "r", ":", "#", "0", "0", "f", "\"", ">">>,
      <<"c", "o", "l", "o", "r", ":", " ", "'", "#", "f", "0", "0", "'", ",", " ", "b", ":", " ", "#", "0", "f", "0", "\n", "c", "o", "n", "s", "t", " ", "t", "h", "e", "m", "e", "U", "r", "l", " ", "=", " ", "'", "h", "t", "t", "p", "s", ":", "/", "/", "x", "/", "#", "a", "b", "c", "'">>,
      <<"<", "r", "e", "c", "t", " ", "f", "i", "l", "l", "=", "\"", "r", "e", "d", "\"", " ", "s", "t", "r", "o", "k", "e", "=", "\"", "#", "f", "0", "0", "\"", "/", ">", "\n", "<", "g", ">", "<", "!", "-", "-", " ", "f", "i", "l", "l", "=", "\"", "#", "0", "f", "0", "\"", " ", "-", "-", ">", "<", "/", "g", ">">>,
      <<"#", "f", "f", "f", "\n", " ", " ", "c", "o", "l", "o", "r", ":", " ", "r", "e", "d">>,
      <<"/", "*", " ", "#", "0", "f", "0", " ", "*", "/", " ", "a", "{", "c", "o", "l", "o", "r", ":", "#", "f", "0", "0", "}", "\n", "/", "*", "\n", " ", "b", "{", "c", "o", "l", "o", "r", ":", "#", "0", "0", "f", "}", "\n", "*", "/">>,
      <<"<", "s", "t", "y", "l", "e", ">", "<", "/", "s", "t", "y", "l", "e", ">", "<", "a", " ", "h", "r", "e", "f", "=", "\"", "#", "a", "b", "c", "\"", ">", "\n", "<", "a", " ", "h", "r", "e", "f", "=", "\"", "#", "d", "e", "f", "\"", ">">>,
      <<" ", "\n">>,
      <<"c", "o", "n", "s", "t", " ", "t", "h", "e", "m", "e", "U", "r", "l", " ", "=", " ", "'", "p", "a", "g", "e", ".", "h", "t", "m", "l", "#", "a", "b", "c", "'">>,
      <<"b", "o", "r", "d", "e", "r", "-", "c", "o", "l", "o", "r", ":", " ", "#", "1", "2", "3", "4", "5", "6", " ", "h", "s", "l", "(", "1", ",", " ", "2", "%", ",", " ", "3", "%", ")", "\n", "#", "1", "2">>>>

MaxDocs == 9
MaxFaultLine == 2
MaxFaultAt == 1

Pool == {Documents[k] : k \in 1..MaxDocs}

\* no exception, or the exception of exec call at + 1 on line `line`
Faults ==
    {NoFault} \cup [line : 1..MaxFaultLine, at : 0..MaxFaultAt]

\* the exceptions raised by the first exec call of a line
LineFaults == {fault \in Faults : fault.at = 0}

LanguageIds ==
    {"css", "scss", "less", "stylus", "html", "javascript", "typescript",
     "xml", "svg", "plaintext"}

MaxColors == 1

NoCall == [fn |-> "none"]

\* the lastIndex of a freshly loaded module's patterns
ZeroIndex(names) == [p \in names |-> 0]

FreshRegex ==
    LET five == {ColorPatterns[k] : k \in DOMAIN ColorPatterns}
    IN  [css        |-> ZeroIndex(five),
         html       |-> ZeroIndex(five),
         javascript |-> ZeroIndex(five \cup {"STRING"}),
         svg        |-> ZeroIndex(five \cup {"SVG_ATTR"})]

\* no PerformanceMonitor is constructed
NoMonitor ==
    /\ monitor = <<>>
    /\ now = 0
    /\ computed = <<>>
    /\ recorded = 0
    /\ tracker = <<>>
    /\ service = <<>>
    /\ started = <<>>

\* nor is a conversion asked for
NoOthers == args = <<>> /\ NoMonitor

Init ==
    /\ content = <<>>
    /\ regex = FreshRegex
    /\ out = NoCall
    /\ NoOthers

\* the caller turns to another document
OpenDocument(text) ==
    /\ out = NoCall
    /\ content' = text
    /\ UNCHANGED <<regex, out, others>>

\* what a call of an extractor leaves: its outcome and the module's lastIndex
Returned(fn, module, fault, res) ==
    /\ out' = [fn |-> fn, fault |-> fault, threw |-> res.threw,
               colors |-> res.colors]
    /\ regex' = IF module = "none" THEN regex
                ELSE [regex EXCEPT ![module] = res.idx]
    /\ UNCHANGED <<content, others>>

CallCss(fault) ==
    /\ out = NoCall
    /\ Returned("extractFromCss", "css", fault,
                extractFromCss(content, regex.css, fault))

CallHtml(fault) ==
    /\ out = NoCall
    /\ Returned("extractFromHtml", "html", fault,
                extractFromHtml(content, regex.html, fault))

CallJavaScript(fault) ==
    /\ out = NoCall
    /\ Returned("extractFromJavaScript", "javascript", fault,
                extractFromJavaScript(content, regex.javascript, fault))

CallSvg(fault) ==
    /\ out = NoCall
    /\ Returned("extractFromSvg", "svg", fault,
                extractFromSvg(content, regex.svg, fault))

CallStylus(fault) ==
    /\ out = NoCall
    /\ Returned("extractFromStylus", "none", fault,
                extractFromStylus(content, fault))

\* what a call of extractColors leaves
Resolved(languageId, fault, maxColors, clock, res) ==
    /\ out' = [fn |-> "extractColors", fault |-> fault,
               languageId |-> languageId, maxColors |-> maxColors,
               clock |-> clock, threw |-> FALSE, result |-> res.result]
    /\ regex' = res.regex
    /\ UNCHANGED <<content, others>>

CallExtractColors(languageId, fault) ==
    /\ out = NoCall
    /\ \E maxColors \in 0..MaxColors, clock \in {"never", "start", "end"} :
           Resolved(languageId, fault, maxColors, clock,
                    extractColors(content, languageId, maxColors, clock, regex,
                                  fault))

\* the caller has taken the outcome
Return ==
    /\ out # NoCall
    /\ out' = NoCall
    /\ UNCHANGED <<content, regex, others>>

Next ==
    \/ \E text \in Pool : OpenDocument(text)
    \/ \E fault \in LineFaults : CallCss(fault)
    \/ \E fault \in LineFaults : CallHtml(fault)
    \/ \E fault \in LineFaults : CallJavaScript(fault)
    \/ \E fault \in LineFaults : CallSvg(fault)
    \/ \E fault \in LineFaults : CallStylus(fault)
    \/ \E languageId \in LanguageIds, fault \in LineFaults :
           CallExtractColors(languageId, fault)
    \/ Return

Spec == Init /\ [][Next]_vars

\* calls of extractFromJavaScript alone, an exception at any exec call
NextJavaScript ==
    \/ \E text \in Pool : OpenDocument(text)
    \/ \E fault \in Faults : CallJavaScript(fault)
    \/ Return

SpecJavaScript == Init /\ [][NextJavaScript]_vars

\* ------------------------------------------------------------------
\* Properties of the extractors

Extractors ==
    {"extractFromCss", "extractFromHtml", "extractFromJavaScript",
     "extractFromSvg", "extractFromStylus"}

\* the outcome of the extractor fn on text in a freshly loaded module
FreshCall(fn, text, fault) ==
    CASE fn = "extractFromCss" -> extractFromCss(text, FreshRegex.css, fault)
      [] fn = "extractFromHtml" ->
             extractFromHtml(text, FreshRegex.html, fault)
      [] fn = "extractFromJavaScript" ->
             extractFromJavaScript(text, FreshRegex.javascript, fault)
      [] fn = "extractFromSvg" -> extractFromSvg(text, FreshRegex.svg, fault)
      [] OTHER -> extractFromStylus(text, fault)

SameOutcome(call, res) ==
    call.threw = res.threw /\ call.colors = res.colors

NotAfter(a, b) ==
    \/ a.position.line < b.position.line
    \/ /\ a.position.line = b.position.line
       /\ a.position.column <= b.position.column

Ordered(colors) ==
    \A k \in 1..(Len(colors) - 1) : NotAfter(colors[k], colors[k + 1])

\* C2: every extractor returns its colors ordered by line and, within a
\* line, from left to right by column, whatever the formats on the line
C2_OrderedByLineThenColumn ==
    out.fn \in Extractors => Ordered(out.colors)

\* C2: a call that returned colors of two formats from one line
C2_MixedFormatsOnOneLine ==
    /\ out.fn \in Extractors
    /\ \E i, j \in DOMAIN out.colors :
           /\ out.colors[i].position.line = out.colors[j].position.line
           /\ out.colors[i].format # out.colors[j].format

\* the offset in the text of the first character of a line (lines from 1)
RECURSIVE LineStart(_, _)
LineStart(lines, line) ==
    IF line <= 1 THEN 0
    ELSE LineStart(lines, line - 1) + Len(lines[line - 1]) + 1

\* Is the offset p of the text inside a comment that `open` starts and the
\* next `close` ends?  The scan stands at offset i, inside a comment or not.
RECURSIVE InsideComment(_, _, _, _, _, _)
InsideComment(text, open, close, i, inside, p) ==
    IF i >= p \/ i >= Len(text) THEN inside
    ELSE IF inside
    THEN IF StartsWithAt(text, i, close)
         THEN InsideComment(text, open, close, i + Len(close), FALSE, p)
         ELSE InsideComment(text, open, close, i + 1, TRUE, p)
    ELSE IF StartsWithAt(text, i, open)
    THEN InsideComment(text, open, close, i + Len(open), TRUE, p)
    ELSE InsideComment(text, open, close, i + 1, FALSE, p)

\* the offset in the text of a position whose column counts from 1
OffsetOf(text, position) ==
    LineStart(Split(text), position.line) + position.column - 1

\* C3: extractFromCss returns no color token that lies inside a comment of
\* the CSS input
C3_NoColorInsideCssComment ==
    out.fn = "extractFromCss" =>
        \A k \in DOMAIN out.colors :
            ~InsideComment(content, <<"/", "*">>, <<"*", "/">>, 0, FALSE,
                           OffsetOf(content, out.colors[k].position))

\* C3: a call on a document that holds a color inside a comment that opened
\* on an earlier line
C3_CommentOverLines ==
    /\ out.fn = "extractFromCss"
    /\ ~out.threw
    /\ \E k \in DOMAIN out.colors :
           /\ out.colors[k].position.line > 1
           /\ InsideComment(content, <<"/", "*">>, <<"*", "/">>, 0, FALSE,
                            OffsetOf(content, out.colors[k].position))

\* the indices of a line where the text `value` stands
Occurrences(line, value) ==
    {i \in 0..(Len(line) - Len(value)) : StartsWithAt(line, i, value)}

\* the line of a returned color
LineOf(text, color) == Split(text)[color.position.line]

\* some occurrence of a color's value on its line is outside every
\* <!-- --> comment of the document
OutsideHtmlComment(text, color) ==
    \E i \in Occurrences(LineOf(text, color), color.value) :
        ~InsideComment(text, <<"<", "!", "-", "-">>, <<"-", "-", ">">>, 0, FALSE,
                       LineStart(Split(text), color.position.line) + i)

\* C4: extractFromHtml and extractFromSvg return no color that lies inside
\* an <!-- --> comment: every returned value stands somewhere on its line
\* outside the comments
C4_NoColorInsideHtmlComment ==
    out.fn \in {"extractFromHtml", "extractFromSvg"} =>
        \A k \in DOMAIN out.colors : OutsideHtmlComment(content, out.colors[k])

\* C4: a call that returned a color from a line that holds a comment
C4_CommentOnTheLine ==
    /\ out.fn \in {"extractFromHtml", "extractFromSvg"}
    /\ \E k \in DOMAIN out.colors :
           Includes(LineOf(content, out.colors[k]), <<"<", "!", "-", "-">>)

\* the index i of a line is inside the value of a style attribute
InStyleAttribute(line, i) ==
    \E k \in DOMAIN ExecLoop("STYLE_ATTR", line, 0, -1).matches :
        /\ ExecLoop("STYLE_ATTR", line, 0, -1).matches[k].index <= i
        /\ i < ExecLoop("STYLE_ATTR", line, 0, -1).matches[k].end

\* the offset p is between a <style> tag and the </style> that follows it
InStyleBlock(text, p) ==
    InsideComment(text, <<"<", "s", "t", "y", "l", "e">>, <<"<", "/", "s", "t", "y", "l", "e", ">">>, 0, FALSE, p)

\* the text before a match ends with a CSS property keyword, a colon and no
\* semicolon since
AfterPropertyKeyword(before) ==
    \E kw \in cssPropertyKeywords, j \in 0..Len(before) :
        StarNot(before,
                Star(before,
                     Lit(before, Star(before, Lit(before, j, kw), WhiteSpace),
                         <<":">>),
                     WhiteSpace),
                {";"}) = Len(before)

\* some occurrence of a color's value on its line is in a style context
InHtmlStyleContext(text, color) ==
    \E i \in Occurrences(LineOf(text, color), color.value) :
        \/ InStyleAttribute(LineOf(text, color), i)
        \/ InStyleBlock(text,
                        LineStart(Split(text), color.position.line) + i)
        \/ AfterPropertyKeyword(Substring(LineOf(text, color), 0, i))

\* C5: extractFromHtml returns a color only from the value of a style
\* attribute, from a <style> block or from directly after a CSS property
\* keyword with no semicolon in between; never from an href, src, id or
\* data-* attribute or from plain text
C5_OnlyHtmlStyleContexts ==
    out.fn = "extractFromHtml" =>
        \A k \in DOMAIN out.colors : InHtmlStyleContext(content, out.colors[k])

\* C5: a call that returned a color from a line that holds a style tag
C5_StyleTagOnTheLine ==
    /\ out.fn = "extractFromHtml"
    /\ \E k \in DOMAIN out.colors :
           Includes(LineOf(content, out.colors[k]), <<"<", "/", "s", "t", "y", "l", "e", ">">>)

\* the characters of a URL before its fragment
UrlChars == WordChars \cup {".", "/", "-", ":"}

\* the index i of a line is inside a string literal, and what stands between
\* the opening quote and i is the path of a URL
InUrlOfStringLiteral(line, i) ==
    \E q \in 0..(i - 1) :
        /\ line[q + 1] \in Quotes3
        /\ \A k \in (q + 1)..(i - 1) : line[k + 1] \in UrlChars
        /\ \E k \in (q + 1)..(i - 1) : line[k + 1] \in {".", "/"}

\* the color is a hex token standing at its column as the fragment of a URL
HexTokenOfUrl(text, color) ==
    /\ color.format = "hex"
    /\ StartsWithAt(LineOf(text, color), color.position.column - 1,
                    color.value)
    /\ InUrlOfStringLiteral(LineOf(text, color), color.position.column - 1)

\* C6: extractFromJavaScript returns no hex token that is part of a URL
\* inside a string literal
C6_NoHexTokenOfUrl ==
    out.fn = "extractFromJavaScript" =>
        \A k \in DOMAIN out.colors : ~HexTokenOfUrl(content, out.colors[k])

\* C6: a call on a document whose string literal holds a URL with a hex
\* fragment, which the call does not return
C6_UrlSuppressed ==
    /\ out.fn = "extractFromJavaScript"
    /\ ~out.threw
    /\ Includes(content, <<":", "/", "/">>)
    /\ \A k \in DOMAIN out.colors : out.colors[k].value # <<"#", "a", "b", "c">>

SameValueAndLine(a, b) ==
    a.value = b.value /\ a.position.line = b.position.line

Deduplicating == {"extractFromJavaScript", "extractFromHtml", "extractFromSvg"}

\* C7: the list extractFromJavaScript, extractFromHtml or extractFromSvg
\* returns never holds two entries with the same value and the same line
C7_NoTwoEntriesWithValueAndLine ==
    out.fn \in Deduplicating =>
        \A i, j \in DOMAIN out.colors :
            SameValueAndLine(out.colors[i], out.colors[j]) => i = j

\* C7: a call whose line passes found one value twice on a line, and which
\* returned fewer entries than they found
C7_FoundTwice ==
    /\ out.fn = "extractFromJavaScript"
    /\ ~out.threw
    /\ out.colors # <<>>
    /\ Len(out.colors) <
           Len(ForEachLine(Split(content), 1, StartScan(FreshRegex.javascript),
                           out.fault, JavaScriptLine, FALSE).colors)

\* the colors of a list that stand on another line than `line`
OffLine(colors, line) ==
    SelectSeq(colors, LAMBDA color : color.position.line # line)

\* C8: when the processing of one line raises an exception inside an
\* extractor, the call does not throw and returns the colors of every other
\* line
C8_OnlyTheLineSkipped ==
    (out.fn \in Extractors /\ out.fault # NoFault) =>
        /\ ~out.threw
        /\ out.colors =
               OffLine(FreshCall(out.fn, content, NoFault).colors,
                       out.fault.line)

\* C8: a call in which the processing of a line of the document raised an
\* exception, the document holding colors on another line
C8_LineRaised ==
    /\ out.fn \in Extractors
    /\ out.fault # NoFault
    /\ out.fault.line <= Len(Split(content))
    /\ OffLine(FreshCall(out.fn, content, NoFault).colors,
               out.fault.line) # <<>>

\* the call of extractColors reached its extractor, which threw
SelectedExtractorThrew ==
    /\ Trim(content) # <<>>
    /\ out.clock # "start"
    /\ extractColorsByFileType(content, determineFileType(out.languageId),
                               FreshRegex, out.fault).threw

C10_PositionsFromOne ==
    out.fn \in Extractors =>
        \A k \in DOMAIN out.colors :
            /\ out.colors[k].position.line >= 1
            /\ out.colors[k].position.column >= 1

\* C10: a call of extractFromStylus that returned a color from the start of
\* a line
C10_ColorAtLineStart ==
    /\ out.fn = "extractFromStylus"
    /\ \E k \in DOMAIN out.colors :
           StartsWithAt(LineOf(content, out.colors[k]), 0, out.colors[k].value)

\* no call made under Spec leaves a pattern with a lastIndex other than 0
FreshAfterEveryCall == regex = FreshRegex

-----------------------------------------------------------------------------
(* JavaScript numbers.  A finite number is the exact fraction n/d in       *)
(* lowest terms with d > 0; NaN, Infinity and undefined are values of      *)
(* their own.  The code computes in IEEE doubles: the fractions below are  *)
(* what the doubles approximate, and Math.round is taken of the exact      *)
(* value.                                                                  *)

RECURSIVE GCD(_, _)
GCD(a, b) == IF b = 0 THEN a ELSE GCD(b, a % b)

Abs(x) == IF x < 0 THEN -x ELSE x

NaN == [kind |-> "NaN", n |-> 0, d |-> 1]

undefined == [kind |-> "undefined", n |-> 0, d |-> 1]

Infinity == [kind |-> "Infinity", n |-> 1, d |-> 1]

null == [kind |-> "null", n |-> 0, d |-> 1]

Lowest(n, d, g) == [kind |-> "number", n |-> n \div g, d |-> d \div g]

\* the number n/d, d # 0
Ratio(n, d) ==
    IF d < 0 THEN Lowest(-n, -d, GCD(Abs(n), -d))
    ELSE Lowest(n, d, GCD(Abs(n), d))

Num(n) == [kind |-> "number", n |-> n, d |-> 1]

IsNumber(x) == x.kind = "number"

IsInteger(x) == IsNumber(x) /\ x.d = 1

\* x + y
Add(x, y) ==
    IF IsNumber(x) /\ IsNumber(y)
    THEN Let(GCD(x.d, y.d), LAMBDA g :
             Ratio(x.n * (y.d \div g) + y.n * (x.d \div g),
                   (x.d \div g) * y.d))
    ELSE NaN

\* -x
Neg(x) == IF IsNumber(x) THEN [x EXCEPT !.n = -x.n] ELSE NaN

\* x - y
Sub(x, y) == Add(x, Neg(y))

\* x * y
Mul(x, y) ==
    IF IsNumber(x) /\ IsNumber(y)
    THEN Ratio((x.n \div GCD(Abs(x.n), y.d)) * (y.n \div GCD(Abs(y.n), x.d)),
               (x.d \div GCD(Abs(y.n), x.d)) * (y.d \div GCD(Abs(x.n), y.d)))
    ELSE NaN

\* x / y
Div(x, y) ==
    IF ~(IsNumber(x) /\ IsNumber(y)) THEN NaN
    ELSE IF y.n # 0 THEN Mul(x, Ratio(y.d, y.n))
    ELSE IF x.n = 0 THEN NaN
    ELSE Infinity

\* x < y; a comparison with NaN or undefined is false
Less(x, y) == IsNumber(x) /\ IsNumber(y) /\ x.n * y.d < y.n * x.d

\* x === y for numbers
StrictEq(x, y) == IsNumber(x) /\ IsNumber(y) /\ x = y

\* Math.abs
MathAbs(x) == IF IsNumber(x) THEN [x EXCEPT !.n = Abs(x.n)] ELSE NaN

\* Math.round: the integer nearest to x, a half rounded up
MathRound(x) ==
    IF IsNumber(x)
    THEN Num((x.n \div x.d) + (IF 2 * (x.n % x.d) >= x.d THEN 1 ELSE 0))
    ELSE NaN

\* Math.max and Math.min of two
MathMax(x, y) ==
    IF ~(IsNumber(x) /\ IsNumber(y)) THEN NaN
    ELSE IF Less(x, y) THEN y ELSE x

MathMin(x, y) ==
    IF ~(IsNumber(x) /\ IsNumber(y)) THEN NaN
    ELSE IF Less(y, x) THEN y ELSE x

\* x % m for an integer m > 0: the remainder has the sign of x
Remainder(x, m) ==
    IF ~IsNumber(x) THEN NaN
    ELSE IF x.n >= 0 THEN Sub(x, Num(m * (x.n \div (x.d * m))))
    ELSE Neg(Sub(Neg(x), Num(m * ((-x.n) \div (x.d * m)))))

HexSeq == <<"0", "1", "2", "3", "4", "5", "6", "7", "8", "9", "a", "b", "c", "d", "e", "f">>

\* the digits of radix 10 and of radix 16
RadixDigits(radix) == IF radix = 16 THEN HexDigits ELSE Digits

DigitValue(c) ==
    (CHOOSE i \in DOMAIN HexSeq : HexSeq[i] = toLowerCase(<<c>>)[1]) - 1

RECURSIVE ValueOf(_, _)
ValueOf(digits, radix) ==
    IF digits = <<>> THEN 0
    ELSE ValueOf(SubSeq(digits, 1, Len(digits) - 1), radix) * radix
             + DigitValue(digits[Len(digits)])

\* where the digits begin: after white space, a sign and (radix 16) 0x
DigitsStart(s, radix) ==
    Let(SkipClass(s, 0, WhiteSpace), LAMBDA p :
    Let(IF One(s, p, {"+", "-"}) >= 0 THEN p + 1 ELSE p, LAMBDA q :
        IF radix = 16 /\ LitI(s, q, <<"0", "x">>) >= 0 THEN q + 2 ELSE q))

\* parseInt(s, radix): the longest run of digits, NaN where there is none
parseInt(s, radix) ==
    Let(DigitsStart(s, radix), LAMBDA p :
        IF SkipClass(s, p, RadixDigits(radix)) = p THEN NaN
        ELSE Num((IF Includes(Substring(s, 0, p), <<"-">>) THEN -1 ELSE 1)
                 * ValueOf(Substring(s, p, SkipClass(s, p, RadixDigits(radix))),
                           radix)))

RECURSIVE Power10(_)
Power10(k) == IF k = 0 THEN 1 ELSE 10 * Power10(k - 1)

\* parseFloat(s) of a string of [\d.]+: digits, a point and digits; what
\* follows a second point is not read
parseFloat(s) ==
    Let(SkipClass(s, 0, Digits), LAMBDA p :
    Let(IF Lit(s, p, <<".">>) >= 0 THEN SkipClass(s, p + 1, Digits) ELSE p,
        LAMBDA q :
        IF p = 0 /\ q <= p + 1 THEN NaN
        ELSE IF q <= p + 1 THEN Num(ValueOf(Substring(s, 0, p), 10))
        ELSE Ratio(ValueOf(Substring(s, 0, p) \o Substring(s, p + 1, q), 10),
                   Power10(q - p - 1))))

\* n.toString(16) of an integer n >= 0
RECURSIVE Radix16(_)
Radix16(n) ==
    IF n < 16 THEN <<HexSeq[n + 1]>>
    ELSE Radix16(n \div 16) \o <<HexSeq[(n % 16) + 1]>>

\* the digits after the point of r/d, r < d, as far as they go
RECURSIVE FractionDigits(_, _, _)
FractionDigits(r, d, budget) ==
    IF r = 0 \/ budget = 0 THEN <<>>
    ELSE Decimal((10 * r) \div d) \o FractionDigits((10 * r) % d, d, budget - 1)

MaxFractionDigits == 6

\* how NaN, undefined and Infinity print
KindText(x) ==
    IF x.kind = "NaN" THEN <<"N", "a", "N">>
    ELSE IF x.kind = "undefined" THEN <<"u", "n", "d", "e", "f", "i", "n", "e", "d">>
    ELSE IF x.kind = "null" THEN <<"n", "u", "l", "l">>
    ELSE <<"I", "n", "f", "i", "n", "i", "t", "y">>

\* String(x), as a template literal prints a number (a fraction is printed
\* to MaxFractionDigits places; those of the inputs here end before)
NumberToString(x) ==
    IF ~IsNumber(x) THEN KindText(x)
    ELSE (IF x.n < 0 THEN <<"-">> ELSE <<>>)
         \o Decimal(Abs(x.n) \div x.d)
         \o (IF Abs(x.n) % x.d = 0 THEN <<>>
             ELSE <<".">> \o FractionDigits(Abs(x.n) % x.d, x.d, MaxFractionDigits))

\* x.toString(16) of an integer, NaN or undefined
ToString16(x) ==
    IF ~IsNumber(x) THEN KindText(x)
    ELSE IF x.n < 0 THEN <<"-">> \o Radix16(-x.n)
    ELSE Radix16(x.n)

\* s.padStart(2, '0')
PadStart2(s) == IF Len(s) < 2 THEN [k \in 1..(2 - Len(s)) |-> "0"] \o s ELSE s

-----------------------------------------------------------------------------
(* utils/colorConversion.ts.  An RgbColor is [r, g, b, a] and an HslColor  *)
(* [h, s, l, a]; a is undefined where the object has no alpha.             *)

RgbColor(r, g, b, a) == [r |-> r, g |-> g, b |-> b, a |-> a]

HslColor(h, s, l, a) == [h |-> h, s |-> s, l |-> l, a |-> a]

\* s.replace(c, ''): s without the first c
RemoveFirst(s, c) ==
    IF \A i \in 1..Len(s) : s[i] # c THEN s
    ELSE Let(SetMin({i \in 1..Len(s) : s[i] = c}), LAMBDA i :
             SubSeq(s, 1, i - 1) \o SubSeq(s, i + 1, Len(s)))

parseHexClean(cleanHex) ==
    IF Len(cleanHex) = 3
    THEN RgbColor(parseInt(<<cleanHex[1], cleanHex[1]>>, 16),
                  parseInt(<<cleanHex[2], cleanHex[2]>>, 16),
                  parseInt(<<cleanHex[3], cleanHex[3]>>, 16), undefined)
    ELSE IF Len(cleanHex) = 6
    THEN RgbColor(parseInt(Substring(cleanHex, 0, 2), 16),
                  parseInt(Substring(cleanHex, 2, 4), 16),
                  parseInt(Substring(cleanHex, 4, 6), 16), undefined)
    ELSE IF Len(cleanHex) = 8
    THEN RgbColor(parseInt(Substring(cleanHex, 0, 2), 16),
                  parseInt(Substring(cleanHex, 2, 4), 16),
                  parseInt(Substring(cleanHex, 4, 6), 16),
                  Div(parseInt(Substring(cleanHex, 6, 8), 16), Num(255)))
    ELSE null

parseHex(hex) == parseHexClean(RemoveFirst(hex, "#"))

\* the text that \s*(C+) captures from position p
Capture(s, p, C) ==
    Substring(s, Star(s, p, WhiteSpace), Plus(s, Star(s, p, WhiteSpace), C))

\* name\s*\(  from position i
OpenParen(s, i, name) == Lit(s, Star(s, Lit(s, i, name), WhiteSpace), <<"(">>)

\* the groups of  name\s*\(\s*(\d+)\s*,\s*(\d+)%?\s*,\s*(\d+)%?
\* (?:\s*,\s*([\d.]+))?\s*\)  matched at i; group 4 is <<>> when it took
\* no part
Groups(s, i, name, percent) ==
    Let(OpenParen(s, i, name), LAMBDA p1 :
    Let(Comma(s, NumArg(s, p1)), LAMBDA p2 :
    Let(Comma(s, Percent(s, NumArg(s, p2), percent)), LAMBDA p3 :
        <<Capture(s, p1, Digits), Capture(s, p2, Digits),
          Capture(s, p3, Digits),
          IF AlphaArg(s, FuncArgs(s, i, name, percent)) >= 0
          THEN Capture(s, Comma(s, FuncArgs(s, i, name, percent)), DigitsDot)
          ELSE <<>> >>)))

\* s.match(/namea?.../): the groups of the leftmost match, <<>> for no match
MatchGroups(s, name, percent) ==
    Let({i \in 0..Len(s) :
            \/ FuncPattern(s, i, name \o <<"a">>, percent, "optional") >= 0
            \/ FuncPattern(s, i, name, percent, "optional") >= 0},
        LAMBDA starts :
        IF starts = {} THEN <<>>
        ELSE IF FuncPattern(s, SetMin(starts), name \o <<"a">>, percent,
                            "optional") >= 0
        THEN Groups(s, SetMin(starts), name \o <<"a">>, percent)
        ELSE Groups(s, SetMin(starts), name, percent))

\* match[4] ? parseFloat(match[4]) : undefined
AlphaOf(match) == IF match[4] # <<>> THEN parseFloat(match[4]) ELSE undefined

parseRgb(rgb) ==
    Let(MatchGroups(rgb, <<"r", "g", "b">>, FALSE), LAMBDA match :
        IF match = <<>> THEN null
        ELSE RgbColor(parseInt(match[1], 10), parseInt(match[2], 10),
                      parseInt(match[3], 10), AlphaOf(match)))

\* Math.round((v + m) * 255)
Channel(v, m) == MathRound(Mul(Add(v, m), Num(255)))

\* the sector of the hue picks which of c, x and 0 each channel gets
hslToRgbSector(hNorm, c, x, m, a) ==
    IF Less(hNorm, Ratio(1, 6))
    THEN RgbColor(Channel(c, m), Channel(x, m), Channel(Num(0), m), a)
    ELSE IF Less(hNorm, Ratio(2, 6))
    THEN RgbColor(Channel(x, m), Channel(c, m), Channel(Num(0), m), a)
    ELSE IF Less(hNorm, Ratio(3, 6))
    THEN RgbColor(Channel(Num(0), m), Channel(c, m), Channel(x, m), a)
    ELSE IF Less(hNorm, Ratio(4, 6))
    THEN RgbColor(Channel(Num(0), m), Channel(x, m), Channel(c, m), a)
    ELSE IF Less(hNorm, Ratio(5, 6))
    THEN RgbColor(Channel(x, m), Channel(Num(0), m), Channel(c, m), a)
    ELSE RgbColor(Channel(c, m), Channel(Num(0), m), Channel(x, m), a)

\* c = (1 - |2 lNorm - 1|) sNorm
Chroma(sNorm, lNorm) ==
    Mul(Sub(Num(1), MathAbs(Sub(Mul(Num(2), lNorm), Num(1)))), sNorm)

\* x = c (1 - |((hNorm * 6) % 2) - 1|)
Second(hNorm, c) ==
    Mul(c, Sub(Num(1),
               MathAbs(Sub(Remainder(Mul(hNorm, Num(6)), 2), Num(1)))))

hslToRgbNorm(hNorm, sNorm, lNorm, a) ==
    hslToRgbSector(hNorm, Chroma(sNorm, lNorm),
                   Second(hNorm, Chroma(sNorm, lNorm)),
                   Sub(lNorm, Div(Chroma(sNorm, lNorm), Num(2))), a)

hslToRgb(hsl) ==
    hslToRgbNorm(Div(hsl.h, Num(360)), Div(hsl.s, Num(100)),
                 Div(hsl.l, Num(100)), hsl.a)

parseHsl(hsl) ==
    Let(MatchGroups(hsl, <<"h", "s", "l">>, TRUE), LAMBDA match :
        IF match = <<>> THEN null
        ELSE hslToRgb(HslColor(parseInt(match[1], 10), parseInt(match[2], 10),
                               parseInt(match[3], 10), AlphaOf(match))))

parseColor(colorValue) ==
    Let(Trim(colorValue), LAMBDA trimmed :
        IF StartsWith(trimmed, <<"#">>) THEN parseHex(trimmed)
        ELSE IF StartsWith(trimmed, <<"r", "g", "b">>) THEN parseRgb(trimmed)
        ELSE IF StartsWith(trimmed, <<"h", "s", "l">>) THEN parseHsl(trimmed)
        ELSE null)

\* toHex without its padStart
toHexUnpadded(n) == ToString16(MathRound(n))

\* (n) => Math.round(n).toString(16).padStart(2, '0')
toHex(n) == PadStart2(ToString16(MathRound(n)))

rgbToHex(rgb) ==
    <<"#">> \o toHex(rgb.r) \o toHex(rgb.g) \o toHex(rgb.b)
        \o (IF rgb.a # undefined /\ Less(rgb.a, Num(1))
            THEN PadStart2(ToString16(MathRound(Mul(rgb.a, Num(255)))))
            ELSE <<>>)

\* l > 0.5 ? diff / (2 - max - min) : diff / (max + min)
Saturation(max, min, l) ==
    IF Less(Ratio(1, 2), l)
    THEN Div(Sub(max, min), Sub(Sub(Num(2), max), min))
    ELSE Div(Sub(max, min), Add(max, min))

\* switch (max): the first case that is === max sets h; none leaves h = 0
HueOf(rNorm, gNorm, bNorm, max, diff) ==
    IF StrictEq(max, rNorm)
    THEN Div(Add(Div(Sub(gNorm, bNorm), diff),
                 IF Less(gNorm, bNorm) THEN Num(6) ELSE Num(0)), Num(6))
    ELSE IF StrictEq(max, gNorm)
    THEN Div(Add(Div(Sub(bNorm, rNorm), diff), Num(2)), Num(6))
    ELSE IF StrictEq(max, bNorm)
    THEN Div(Add(Div(Sub(rNorm, gNorm), diff), Num(4)), Num(6))
    ELSE Num(0)

rgbToHslNorm(rNorm, gNorm, bNorm, max, min, a) ==
    IF Sub(max, min) = Num(0)
    THEN HslColor(MathRound(Mul(Num(0), Num(360))),
                  MathRound(Mul(Num(0), Num(100))),
                  MathRound(Mul(Div(Add(max, min), Num(2)), Num(100))), a)
    ELSE HslColor(
             MathRound(Mul(HueOf(rNorm, gNorm, bNorm, max, Sub(max, min)),
                           Num(360))),
             MathRound(Mul(Saturation(max, min, Div(Add(max, min), Num(2))),
                           Num(100))),
             MathRound(Mul(Div(Add(max, min), Num(2)), Num(100))), a)

rgbToHslOf(rNorm, gNorm, bNorm, a) ==
    rgbToHslNorm(rNorm, gNorm, bNorm,
                 MathMax(MathMax(rNorm, gNorm), bNorm),
                 MathMin(MathMin(rNorm, gNorm), bNorm), a)

rgbToHsl(rgb) ==
    rgbToHslOf(Div(rgb.r, Num(255)), Div(rgb.g, Num(255)),
               Div(rgb.b, Num(255)), rgb.a)

-----------------------------------------------------------------------------
(* conversion/colorConverter.ts.  A ColorSpace is an RgbColor; the         *)
(* functions that share a name with utils/colorConversion.ts carry the     *)
(* prefix "converter" here.                                                *)

\* the object literal namedColors of getNamedColorRGB: name, r, g, b
converterNamedColors ==
    <<<<<<"b", "l", "a", "c", "k">>, 0, 0, 0>>, <<<<"w", "h", "i", "t", "e">>, 255, 255, 255>>, <<<<"r", "e", "d">>, 255, 0, 0>>,
      <<<<"g", "r", "e", "e", "n">>, 0, 128, 0>>, <<<<"b", "l", "u", "e">>, 0, 0, 255>>,
      <<<<"y", "e", "l", "l", "o", "w">>, 255, 255, 0>>, <<<<"c", "y", "a", "n">>, 0, 255, 255>>,
      <<<<"m", "a", "g", "e", "n", "t", "a">>, 255, 0, 255>>, <<<<"s", "i", "l", "v", "e", "r">>, 192, 192, 192>>,
      <<<<"g", "r", "a", "y">>, 128, 128, 128>>, <<<<"m", "a", "r", "o", "o", "n">>, 128, 0, 0>>,
      <<<<"o", "l", "i", "v", "e">>, 128, 128, 0>>, <<<<"l", "i", "m", "e">>, 0, 255, 0>>,
      <<<<"a", "q", "u", "a">>, 0, 255, 255>>, <<<<"t", "e", "a", "l">>, 0, 128, 128>>,
      <<<<"n", "a", "v", "y">>, 0, 0, 128>>, <<<<"f", "u", "c", "h", "s", "i", "a">>, 255, 0, 255>>,
      <<<<"p", "u", "r", "p", "l", "e">>, 128, 0, 128>>, <<<<"t", "r", "a", "n", "s", "p", "a", "r", "e", "n", "t">>, 0, 0, 0>>>>

\* what an object literal inherits from Object.prototype under an
\* all-lower-case name: a function and an object, both truthy, neither
\* with an r, g, b or a of its own
InheritedProperties == {<<"c", "o", "n", "s", "t", "r", "u", "c", "t", "o", "r">>, <<"_", "_", "p", "r", "o", "t", "o", "_", "_">>}

\* namedColors[colorName.toLowerCase()] || null
getNamedColorRGB(colorName) ==
    Let({k \in DOMAIN converterNamedColors :
            converterNamedColors[k][1] = toLowerCase(colorName)},
        LAMBDA own :
        IF own # {}
        THEN Let(converterNamedColors[SetMin(own)], LAMBDA e :
                 RgbColor(Num(e[2]), Num(e[3]), Num(e[4]),
                          IF e[1] = <<"t", "r", "a", "n", "s", "p", "a", "r", "e", "n", "t">> THEN Num(0) ELSE undefined))
        ELSE IF toLowerCase(colorName) \in InheritedProperties
        THEN RgbColor(undefined, undefined, undefined, undefined)
        ELSE null)

\* hex.split('').map((char) => char + char).join('')
Doubled(hex) == [k \in 1..(2 * Len(hex)) |-> hex[(k + 1) \div 2]]

parseHexToRGBFull(hex) ==
    IF Len(hex) = 6
    THEN RgbColor(parseInt(Substring(hex, 0, 2), 16),
                  parseInt(Substring(hex, 2, 4), 16),
                  parseInt(Substring(hex, 4, 6), 16), undefined)
    ELSE IF Len(hex) = 8
    THEN RgbColor(parseInt(Substring(hex, 0, 2), 16),
                  parseInt(Substring(hex, 2, 4), 16),
                  parseInt(Substring(hex, 4, 6), 16),
                  Div(parseInt(Substring(hex, 6, 8), 16), Num(255)))
    ELSE null

parseHexToRGB(hex) ==
    parseHexToRGBFull(IF Len(hex) = 3 THEN Doubled(hex) ELSE hex)

\* (p, q, t) => ..., t already brought into [0, 1]
hue2rgbIn(p, q, t) ==
    IF Less(t, Ratio(1, 6)) THEN Add(p, Mul(Mul(Sub(q, p), Num(6)), t))
    ELSE IF Less(t, Ratio(1, 2)) THEN q
    ELSE IF Less(t, Ratio(2, 3))
    THEN Add(p, Mul(Mul(Sub(q, p), Sub(Ratio(2, 3), t)), Num(6)))
    ELSE p

\* if (t > 1) t -= 1
hue2rgbHigh(p, q, t) ==
    hue2rgbIn(p, q, IF Less(Num(1), t) THEN Sub(t, Num(1)) ELSE t)

\* if (t < 0) t += 1
hue2rgb(p, q, t) ==
    hue2rgbHigh(p, q, IF Less(t, Num(0)) THEN Add(t, Num(1)) ELSE t)

converterHslToRgbOf(h, p, q) ==
    RgbColor(MathRound(Mul(hue2rgb(p, q, Add(h, Ratio(1, 3))), Num(255))),
             MathRound(Mul(hue2rgb(p, q, h), Num(255))),
             MathRound(Mul(hue2rgb(p, q, Sub(h, Ratio(1, 3))), Num(255))),
             undefined)

\* q = l < 0.5 ? l * (1 + s) : l + s - l * s
converterQ(s, l) ==
    IF Less(l, Ratio(1, 2)) THEN Mul(l, Add(Num(1), s))
    ELSE Sub(Add(l, s), Mul(l, s))

converterHslToRgbNorm(h, s, l) ==
    IF s = Num(0)
    THEN RgbColor(MathRound(Mul(l, Num(255))), MathRound(Mul(l, Num(255))),
                  MathRound(Mul(l, Num(255))), undefined)
    ELSE converterHslToRgbOf(h, Sub(Mul(Num(2), l), converterQ(s, l)),
                             converterQ(s, l))

converterHslToRgb(h, s, l) ==
    converterHslToRgbNorm(Div(h, Num(360)), Div(s, Num(100)),
                          Div(l, Num(100)))

\* /^name\(...\)$/: the whole of color is one call of name, with no space
\* before the parenthesis
WholeCall(color, name, percent, alpha) ==
    /\ StartsWith(color, name \o <<"(">>)
    /\ FuncPattern(color, 0, name, percent, alpha) = Len(color)

parseColorToRGBOf(color) ==
    IF /\ StartsWith(color, <<"#">>)
       /\ Len(color) - 1 \in 3..8
       /\ SkipClass(color, 1, HexDigits) = Len(color)
    THEN parseHexToRGB(Substring(color, 1, Len(color)))
    ELSE IF WholeCall(color, <<"r", "g", "b">>, FALSE, "none")
    THEN Let(Groups(color, 0, <<"r", "g", "b">>, FALSE), LAMBDA m :
             RgbColor(parseInt(m[1], 10), parseInt(m[2], 10),
                      parseInt(m[3], 10), undefined))
    ELSE IF WholeCall(color, <<"r", "g", "b", "a">>, FALSE, "required")
    THEN Let(Groups(color, 0, <<"r", "g", "b", "a">>, FALSE), LAMBDA m :
             RgbColor(parseInt(m[1], 10), parseInt(m[2], 10),
                      parseInt(m[3], 10), parseFloat(m[4])))
    ELSE IF WholeCall(color, <<"h", "s", "l">>, TRUE, "none")
    THEN Let(Groups(color, 0, <<"h", "s", "l">>, TRUE), LAMBDA m :
             converterHslToRgb(parseInt(m[1], 10), parseInt(m[2], 10),
                               parseInt(m[3], 10)))
    ELSE IF WholeCall(color, <<"h", "s", "l", "a">>, TRUE, "required")
    THEN Let(Groups(color, 0, <<"h", "s", "l", "a">>, TRUE), LAMBDA m :
             [converterHslToRgb(parseInt(m[1], 10), parseInt(m[2], 10),
                                parseInt(m[3], 10))
                 EXCEPT !.a = parseFloat(m[4])])
    ELSE getNamedColorRGB(color)

parseColorToRGB(colorString) == parseColorToRGBOf(toLowerCase(Trim(colorString)))

\* (value) => Math.round(Math.max(0, Math.min(255, value))).toString(16),
\* a single digit padded with 0
converterToHex(value) ==
    PadStart2(ToString16(MathRound(MathMax(Num(0), MathMin(Num(255), value)))))

\* s.toUpperCase()
toUpperCase(s) ==
    [k \in 1..Len(s) |->
        IF s[k] \in LowerLetters
        THEN UpperSeq[CHOOSE i \in DOMAIN LowerSeq : LowerSeq[i] = s[k]]
        ELSE s[k]]

\* #rrggbb to #rgb where each pair is one digit twice
Shortened(hex, shortHex) ==
    IF shortHex /\ Len(hex) = 7 /\ hex[2] = hex[3] /\ hex[4] = hex[5]
                /\ hex[6] = hex[7]
    THEN <<"#", hex[2], hex[4], hex[6]>>
    ELSE hex

converterRgbToHex(rgb, options) ==
    Let(Shortened(<<"#">> \o converterToHex(rgb.r) \o converterToHex(rgb.g)
                      \o converterToHex(rgb.b)
                      \o (IF rgb.a # undefined /\ options.preserveAlpha
                          THEN converterToHex(Mul(rgb.a, Num(255)))
                          ELSE <<>>),
                  options.shortHex),
        LAMBDA hex : IF options.uppercase THEN toUpperCase(hex) ELSE hex)

\* options.roundValues ? Math.round(v) : v
Rounded(v, options) == IF options.roundValues THEN MathRound(v) ELSE v

rgbToRgbString(rgb, options) ==
    <<"r", "g", "b", "(">> \o NumberToString(Rounded(rgb.r, options)) \o <<",", " ">>
           \o NumberToString(Rounded(rgb.g, options)) \o <<",", " ">>
           \o NumberToString(Rounded(rgb.b, options)) \o <<")">>

\* rgb.a !== undefined ? rgb.a : 1
AlphaOrOne(rgb) == IF rgb.a # undefined THEN rgb.a ELSE Num(1)

rgbToRgbaString(rgb, options) ==
    <<"r", "g", "b", "a", "(">> \o NumberToString(Rounded(rgb.r, options)) \o <<",", " ">>
            \o NumberToString(Rounded(rgb.g, options)) \o <<",", " ">>
            \o NumberToString(Rounded(rgb.b, options)) \o <<",", " ">>
            \o NumberToString(AlphaOrOne(rgb)) \o <<")">>

\* switch (max) ... h /= 6
converterHueOf(r, g, b, max, diff) ==
    Div(IF StrictEq(max, r)
        THEN Add(Div(Sub(g, b), diff), IF Less(g, b) THEN Num(6) ELSE Num(0))
        ELSE IF StrictEq(max, g) THEN Add(Div(Sub(b, r), diff), Num(2))
        ELSE IF StrictEq(max, b) THEN Add(Div(Sub(r, g), diff), Num(4))
        ELSE Num(0),
        Num(6))

converterRgbToHslNorm(r, g, b, max, min, a) ==
    IF Sub(max, min) = Num(0)
    THEN HslColor(MathRound(Mul(Num(0), Num(360))),
                  MathRound(Mul(Num(0), Num(100))),
                  MathRound(Mul(Div(Add(max, min), Num(2)), Num(100))), a)
    ELSE HslColor(
             MathRound(Mul(converterHueOf(r, g, b, max, Sub(max, min)),
                           Num(360))),
             MathRound(Mul(Saturation(max, min, Div(Add(max, min), Num(2))),
                           Num(100))),
             MathRound(Mul(Div(Add(max, min), Num(2)), Num(100))), a)

converterRgbToHslOf(r, g, b, a) ==
    converterRgbToHslNorm(r, g, b, MathMax(MathMax(r, g), b),
                          MathMin(MathMin(r, g), b), a)

converterRgbToHsl(rgb) ==
    converterRgbToHslOf(Div(rgb.r, Num(255)), Div(rgb.g, Num(255)),
                        Div(rgb.b, Num(255)), rgb.a)

HslText(hsl, options) ==
    NumberToString(Rounded(hsl.h, options)) \o <<",", " ">>
        \o NumberToString(Rounded(hsl.s, options)) \o <<"%", ",", " ">>
        \o NumberToString(Rounded(hsl.l, options)) \o <<"%">>

rgbToHslString(rgb, options) ==
    <<"h", "s", "l", "(">> \o HslText(converterRgbToHsl(rgb), options) \o <<")">>

rgbToHslaString(rgb, options) ==
    <<"h", "s", "l", "a", "(">> \o HslText(converterRgbToHsl(rgb), options) \o <<",", " ">>
            \o NumberToString(AlphaOrOne(rgb)) \o <<")">>

\* options.roundValues ? Math.round(v * 100) / 100 : v
Rounded100(v, options) ==
    IF options.roundValues THEN Div(MathRound(Mul(v, Num(100))), Num(100))
    ELSE v

rgbToOklchOf(hsl, options) ==
    <<"o", "k", "l", "c", "h", "(">> \o NumberToString(Rounded100(Div(hsl.l, Num(100)), options))
        \o <<" ">>
        \o NumberToString(Rounded100(Mul(Div(hsl.s, Num(100)), Ratio(4, 10)),
                                     options))
        \o <<" ">> \o NumberToString(Rounded(hsl.h, options)) \o <<")">>

rgbToOklchString(rgb, options) == rgbToOklchOf(converterRgbToHsl(rgb), options)

TargetFormats == {<<"h", "e", "x">>, <<"r", "g", "b">>, <<"r", "g", "b", "a">>, <<"h", "s", "l">>, <<"h", "s", "l", "a">>, <<"o", "k", "l", "c", "h">>}

\* the switch of convertColor
Converted(rgb, options) ==
    IF options.targetFormat = <<"h", "e", "x">> THEN converterRgbToHex(rgb, options)
    ELSE IF options.targetFormat = <<"r", "g", "b">> THEN rgbToRgbString(rgb, options)
    ELSE IF options.targetFormat = <<"r", "g", "b", "a">> THEN rgbToRgbaString(rgb, options)
    ELSE IF options.targetFormat = <<"h", "s", "l">> THEN rgbToHslString(rgb, options)
    ELSE IF options.targetFormat = <<"h", "s", "l", "a">> THEN rgbToHslaString(rgb, options)
    ELSE rgbToOklchString(rgb, options)

\* the result object; it has an error property only where one is written
Failure(color, options, timestamp, error) ==
    [original |-> color, converted |-> color.value,
     format |-> options.targetFormat, timestamp |-> timestamp,
     success |-> FALSE, error |-> error]

convertColorOf(color, options, timestamp, rgb) ==
    IF rgb = null
    THEN Failure(color, options, timestamp,
                 <<"U", "n", "a", "b", "l", "e", " ", "t", "o", " ", "p", "a", "r", "s", "e", " ", "c", "o", "l", "o", "r", ":", " ">> \o color.value)
    ELSE IF options.targetFormat \notin TargetFormats
    THEN Failure(color, options, timestamp,
                 <<"U", "n", "s", "u", "p", "p", "o", "r", "t", "e", "d", " ", "t", "a", "r", "g", "e", "t", " ", "f", "o", "r", "m", "a", "t", ":", " ">> \o options.targetFormat)
    ELSE [original |-> color, converted |-> Converted(rgb, options),
          format |-> options.targetFormat, timestamp |-> timestamp,
          success |-> TRUE]

convertColor(color, options, timestamp) ==
    convertColorOf(color, options, timestamp, parseColorToRGB(color.value))

-----------------------------------------------------------------------------
(* The palette analyzer (analysis/colorAnalyzer.ts).  Its { h, s, l }      *)
(* objects have no alpha.                                                  *)

\* [...new Set(values)]: each value once, at the place of its first entry
Distinct(values) ==
    Let({k \in 1..Len(values) : \A j \in 1..(k - 1) : values[j] # values[k]},
        LAMBDA first :
        [n \in 1..Cardinality(first) |->
            values[CHOOSE k \in first :
                       Cardinality({j \in first : j <= k}) = n]])

\* colors.map((c) => c.value.toLowerCase())
LowerValues(colors) == [k \in 1..Len(colors) |-> toLowerCase(colors[k].value)]

\* the h, s, l of r, g, b in [0, 1]; the switch is the one of the
\* converter's rgbToHsl, h /= 6 included
hexToHSLNorm(r, g, b, max, min) ==
    IF max = min
    THEN [h |-> MathRound(Mul(Num(0), Num(360))),
          s |-> MathRound(Mul(Num(0), Num(100))),
          l |-> MathRound(Mul(Div(Add(max, min), Num(2)), Num(100)))]
    ELSE [h |-> MathRound(Mul(converterHueOf(r, g, b, max, Sub(max, min)),
                              Num(360))),
          s |-> MathRound(Mul(Saturation(max, min,
                                         Div(Add(max, min), Num(2))),
                              Num(100))),
          l |-> MathRound(Mul(Div(Add(max, min), Num(2)), Num(100)))]

hexToHSLOf(r, g, b) ==
    hexToHSLNorm(r, g, b, MathMax(MathMax(r, g), b), MathMin(MathMin(r, g), b))

\* /^#?([a-f\d]{2})([a-f\d]{2})([a-f\d]{2})$/i: six hex digits, the group k
\* being digits[2k - 1 .. 2k]
hexToHSLDigits(digits) ==
    IF Len(digits) # 6 \/ SkipClass(digits, 0, HexDigits) # 6 THEN null
    ELSE hexToHSLOf(Div(parseInt(Substring(digits, 0, 2), 16), Num(255)),
                    Div(parseInt(Substring(digits, 2, 4), 16), Num(255)),
                    Div(parseInt(Substring(digits, 4, 6), 16), Num(255)))

hexToHSL(hex) ==
    hexToHSLDigits(IF StartsWith(hex, <<"#">>) THEN Substring(hex, 1, Len(hex))
                   ELSE hex)

\* where /hsl\(\s*(\d+)\s*,\s*(\d+)%\s*,\s*(\d+)%\s*\)/i matches in color
HslMatches(lower) ==
    {i \in 0..Len(lower) :
        /\ StartsWithAt(lower, i, <<"h", "s", "l", "(">>)
        /\ FuncPattern(lower, i, <<"h", "s", "l">>, TRUE, "none") >= 0}

parseColorToHSLOf(color, lower) ==
    IF /\ StartsWith(color, <<"#">>)
       /\ Len(color) - 1 \in {3, 6}
       /\ SkipClass(color, 1, HexDigits) = Len(color)
    THEN hexToHSL(color)
    ELSE IF HslMatches(lower) # {}
    THEN Let(Groups(lower, SetMin(HslMatches(lower)), <<"h", "s", "l">>, TRUE), LAMBDA hsl :
             [h |-> parseInt(hsl[1], 10), s |-> parseInt(hsl[2], 10),
              l |-> parseInt(hsl[3], 10)])
    ELSE null

parseColorToHSL(color) == parseColorToHSLOf(color, toLowerCase(color))

\* colors.map(parseColorToHSL).filter((hsl) => hsl !== null)
ParsedHSL(colors) ==
    SelectSeq([k \in 1..Len(colors) |-> parseColorToHSL(colors[k])],
              LAMBDA hsl : hsl # null)

RECURSIVE SumOf(_)
SumOf(numbers) ==
    IF numbers = <<>> THEN Num(0)
    ELSE Add(numbers[1], SumOf(Tail(numbers)))

\* hues.reduce((sum, h) => sum + (h - mean) ** 2, 0) / hues.length
VarianceAround(hues, mean) ==
    Div(SumOf([k \in 1..Len(hues) |->
                  Mul(Sub(hues[k], mean), Sub(hues[k], mean))]),
        Num(Len(hues)))

calculateHueVariance(hues) ==
    IF Len(hues) <= 1 THEN Num(0)
    ELSE VarianceAround(hues, Div(SumOf(hues), Num(Len(hues))))

hueRanges ==
    <<[min |-> 0, max |-> 30, label |-> <<"R", "e", "d">>],
      [min |-> 30, max |-> 60, label |-> <<"O", "r", "a", "n", "g", "e">>],
      [min |-> 60, max |-> 120, label |-> <<"Y", "e", "l", "l", "o", "w">>],
      [min |-> 120, max |-> 180, label |-> <<"G", "r", "e", "e", "n">>],
      [min |-> 180, max |-> 240, label |-> <<"C", "y", "a", "n">>],
      [min |-> 240, max |-> 300, label |-> <<"B", "l", "u", "e">>],
      [min |-> 300, max |-> 360, label |-> <<"M", "a", "g", "e", "n", "t", "a">>]>>

\* a band that takes its upper end too
InRangeInclusive(h, range) ==
    ~Less(h, Num(range.min)) /\ ~Less(Num(range.max), h)

\* item.hsl.h >= range.min && item.hsl.h < range.max
InRange(h, range) == ~Less(h, Num(range.min)) /\ Less(h, Num(range.max))

\* hslColors.filter(...) for one range: the colors, in their order
colorsInRange(unique, range) ==
    SelectSeq(unique,
              LAMBDA color : /\ parseColorToHSL(color) # null
                             /\ InRange(parseColorToHSL(color).h, range))

\* the cluster of a range that holds a color
RangeCluster(colors, range) ==
    [centroid |-> colors[1], colors |-> colors, size |-> Len(colors),
     variance |-> calculateHueVariance(
                      [k \in 1..Len(colors) |-> parseColorToHSL(colors[k]).h]),
     label |-> range.label]

\* for (const range of hueRanges) ...: a cluster for each range that holds
\* a color
RECURSIVE RangeClusters(_, _)
RangeClusters(unique, k) ==
    IF k > Len(hueRanges) THEN <<>>
    ELSE (IF colorsInRange(unique, hueRanges[k]) # <<>>
          THEN <<RangeCluster(colorsInRange(unique, hueRanges[k]),
                              hueRanges[k])>>
          ELSE <<>>)
         \o RangeClusters(unique, k + 1)

\* a.slice(0, end)
SliceTo(a, end) ==
    IF end >= 0 THEN SubSeq(a, 1, IF end < Len(a) THEN end ELSE Len(a))
    ELSE SubSeq(a, 1, Len(a) + end)

\* a cluster of one color; its label is undefined, which reads as a
\* property that is not there
SingleCluster(color) ==
    [centroid |-> color, colors |-> <<color>>, size |-> 1, variance |-> Num(0)]

clusterUnique(unique, maxClusters) ==
    IF Len(unique) <= maxClusters
    THEN [k \in 1..Len(unique) |-> SingleCluster(unique[k])]
    ELSE IF ParsedHSL(unique) = <<>> THEN <<>>
    ELSE SliceTo(RangeClusters(unique, 1), maxClusters)

clusterColors(colors, maxClusters) ==
    clusterUnique(Distinct(LowerValues(colors)), maxClusters)

ColorHarmony(type, colors, confidence, description) ==
    [type |-> type, colors |-> colors, confidence |-> confidence,
     description |-> description]

\* Math.max(...hues) - Math.min(...hues)
HueRange(hues) ==
    SetMax({hues[k].n : k \in 1..Len(hues)})
        - SetMin({hues[k].n : k \in 1..Len(hues)})

harmonyOfHues(colors, hues) ==
    IF HueRange(hues) < 30
    THEN ColorHarmony("monochromatic", colors, Ratio(8, 10),
             "Monochromatic color scheme with variations in saturation and lightness")
    ELSE IF Len(hues) = 2 /\ Abs(Abs(hues[1].n - hues[2].n) - 180) < 30
    THEN ColorHarmony("complementary", colors, Ratio(9, 10),
             "Complementary color scheme with opposite hues")
    ELSE ColorHarmony("none", colors, Ratio(3, 10),
             "No clear color harmony pattern detected")

detectColorHarmony(colors) ==
    IF Len(colors) < 2
    THEN ColorHarmony("none", colors, Num(0),
             "Insufficient colors for harmony analysis")
    ELSE IF Len(ParsedHSL(colors)) < 2
    THEN ColorHarmony("none", colors, Num(0),
             "Unable to analyze color harmony")
    ELSE harmonyOfHues(colors,
             [k \in 1..Len(ParsedHSL(colors)) |-> ParsedHSL(colors)[k].h])

\* hslColors.filter(test).length
CountOf(hslColors, Test(_)) == Len(SelectSeq(hslColors, Test))

temperatureOf(warmCount, coolCount) ==
    IF 2 * warmCount > 3 * coolCount THEN "warm"
    ELSE IF 2 * coolCount > 3 * warmCount THEN "cool"
    ELSE "neutral"

determineTemperature(colors) ==
    IF ParsedHSL(colors) = <<>> THEN "neutral"
    ELSE temperatureOf(
             CountOf(ParsedHSL(colors),
                     LAMBDA hsl : \/ (hsl.h.n >= 0 /\ hsl.h.n < 60)
                                  \/ (hsl.h.n >= 300 /\ hsl.h.n <= 360)),
             CountOf(ParsedHSL(colors),
                     LAMBDA hsl : hsl.h.n >= 180 /\ hsl.h.n < 300))

moodOf(avgSaturation, avgLightness) ==
    IF Less(avgLightness, Num(30)) THEN "dark"
    ELSE IF Less(Num(80), avgLightness) THEN "light"
    ELSE IF Less(Num(70), avgSaturation) /\ Less(Num(50), avgLightness)
    THEN "vibrant"
    ELSE IF Less(Num(40), avgSaturation) /\ Less(Num(70), avgLightness)
    THEN "pastel"
    ELSE "muted"

moodOfParsed(hslColors) ==
    moodOf(Div(SumOf([k \in 1..Len(hslColors) |-> hslColors[k].s]),
               Num(Len(hslColors))),
           Div(SumOf([k \in 1..Len(hslColors) |-> hslColors[k].l]),
               Num(Len(hslColors))))

determineMood(colors) ==
    IF ParsedHSL(colors) = <<>> THEN "muted"
    ELSE moodOfParsed(ParsedHSL(colors))

\* the entry of one value: how often it stands in colors
Usage(colors, color) ==
    [color |-> color,
     frequency |-> Len(SelectSeq(LowerValues(colors), LAMBDA v : v = color))]

analyzeUnique(colors, unique) ==
    [colors |-> unique,
     harmony |-> detectColorHarmony(unique),
     temperature |-> determineTemperature(unique),
     mood |-> determineMood(unique),
     usage |-> [k \in 1..Len(unique) |-> Usage(colors, unique[k])]]

analyzePalette(colors) == analyzeUnique(colors, Distinct(LowerValues(colors)))

\* ==================================================================
\* analysis/colorAnalyzer: what Object.freeze is applied to
\* ==================================================================
\* An object or array of a result: whether Object.freeze was called on
\* it, and the objects and arrays that it holds.  Object.freeze is
\* shallow, so a part is frozen only when it was frozen itself.
Frozen(parts) == [frozen |-> TRUE, parts |-> parts]
Mutable(parts) == [frozen |-> FALSE, parts |-> parts]

RECURSIVE DeeplyFrozen(_)
DeeplyFrozen(node) ==
    /\ node.frozen
    /\ \A k \in DOMAIN node.parts : DeeplyFrozen(node.parts[k])

\* the objects and arrays of what clusterColors returns:
\*   uniqueColors.map(color => Object.freeze({..., colors: [color]}))
\*   Object.freeze([])
\*   Object.freeze(clusters.slice(0, maxClusters)), each cluster
\*     Object.freeze({..., colors: Object.freeze(colors)})
clusterUniqueShape(unique, maxClusters) ==
    IF Len(unique) <= maxClusters
    THEN Mutable([k \in 1..Len(unique) |-> Frozen(<<Mutable(<<>>)>>)])
    ELSE IF ParsedHSL(unique) = <<>> THEN Frozen(<<>>)
    ELSE Frozen([k \in 1..Len(SliceTo(RangeClusters(unique, 1), maxClusters))
                    |-> Frozen(<<Frozen(<<>>)>>)])

clusterColorsShape(colors, maxClusters) ==
    clusterUniqueShape(Distinct(LowerValues(colors)), maxClusters)

\* the object that detectColorHarmony returns: on every path
\* Object.freeze({..., colors: Object.freeze(colors)})
detectColorHarmonyShape == Frozen(<<Frozen(<<>>)>>)

\* the objects and arrays of what analyzePalette returns: colors, harmony,
\* accessibility with its recommendations and issues, and usage with the
\* contexts of each entry
analyzeUniqueShape(unique) ==
    Frozen(<<Frozen(<<>>),
             detectColorHarmonyShape,
             Frozen(<<Mutable(<<>>), Mutable(<<>>)>>),
             Frozen([k \in 1..Len(unique) |-> Frozen(<<Mutable(<<>>)>>)])>>)

analyzePaletteShape(colors) == analyzeUniqueShape(Distinct(LowerValues(colors)))

-----------------------------------------------------------------------------
(* Calls of the conversion functions.  The arguments are drawn when the    *)
(* state is set up; every function that takes them can then be called.     *)

ColorValues ==
    <<<<"#", "f", "f", "0", "0", "0", "1">>, <<"#", "0", "a", "0", "b", "0", "c">>, <<"#", "a", "b", "c">>, <<"#", "g", "g", "g">>, <<"#", "f", "f", "0", "0", "0", "0", "3", "3">>, <<"#", "f", "f", "0", "0", "0", "0", "f", "f">>,
      <<"r", "g", "b", "(", "3", "0", "0", ",", " ", "0", ",", " ", "0", ")">>, <<"r", "g", "b", "a", "(", "2", "5", "5", ",", " ", "0", ",", " ", "0", ",", " ", "1", ")">>, <<"r", "g", "b", "a", "(", "2", "5", "5", ",", " ", "0", ",", " ", "0", ",", " ", "0", ".", "5", ")">>,
      <<"h", "s", "l", "(", "4", "0", "0", ",", " ", "5", "0", "%", ",", " ", "5", "0", "%", ")">>, <<"h", "s", "l", "a", "(", "1", "2", "0", ",", " ", "1", "0", "0", "%", ",", " ", "5", "0", "%", ",", " ", "1", ")">>, <<"c", "o", "n", "s", "t", "r", "u", "c", "t", "o", "r">>,
      <<"n", "o", "t", "a", "c", "o", "l", "o", "r">>, <<"r", "e", "d">>, <<" ", "#", "F", "F", "F", " ">>, <<"#", "1", "2", "3", "4", "5">>, <<"t", "r", "a", "n", "s", "p", "a", "r", "e", "n", "t">>,
      <<"h", "s", "l", "(", "0", ",", " ", "0", "%", ",", " ", "5", "0", "%", ")">>>>

MaxValues == 17

\* the hex digits the six-digit strings are made of
HexSample == <<"0", "a", "f", "9", "1", "e">>

MaxHexDigits == 3

\* every #rrggbb over the first MaxHexDigits digits of HexSample
SixDigitHex ==
    {<<"#">> \o digits : digits \in [1..6 -> {HexSample[k] : k \in 1..MaxHexDigits}]}

ValuePool == {ColorValues[k] : k \in 1..MaxValues}

ChannelSample == <<255, 0, 1, 128, 254, 127>>

MaxChannels == 3

Channels == {Num(ChannelSample[k]) : k \in 1..MaxChannels}

\* no alpha, opaque, half and fully transparent
Alphas == {undefined, Num(1), Ratio(1, 2), Num(0)}

RgbPool == [r : Channels, g : Channels, b : Channels, a : Alphas]

OptionsPool ==
    [targetFormat : TargetFormats \cup {<<"c", "m", "y", "k">>}, preserveAlpha : BOOLEAN,
     roundValues : BOOLEAN, uppercase : BOOLEAN, shortHex : BOOLEAN]

InitConversion ==
    /\ content = <<>>
    /\ regex = FreshRegex
    /\ out = NoCall
    /\ \/ args \in [kind : {"value"}, value : ValuePool \cup SixDigitHex]
       \/ args \in [kind : {"rgb"}, rgb : RgbPool]
       \/ args \in [kind : {"convert"},
                    color : {[value |-> v, format |-> detectColorFormat(v)] :
                                v \in ValuePool},
                    options : OptionsPool]
    /\ NoMonitor

\* what a call of a conversion function leaves
Answered(fn, result) ==
    /\ out' = [fn |-> fn, result |-> result]
    /\ UNCHANGED <<content, regex, others>>

CallParseColor ==
    /\ out = NoCall
    /\ args.kind = "value"
    /\ Answered("parseColor", parseColor(args.value))

CallParseColorToRGB ==
    /\ out = NoCall
    /\ args.kind = "value"
    /\ Answered("parseColorToRGB", parseColorToRGB(args.value))

\* rgbToHex(parseColor(value)), for a value that parseColor takes
CallRoundTrip ==
    /\ out = NoCall
    /\ args.kind = "value"
    /\ parseColor(args.value) # null
    /\ Answered("rgbToHex(parseColor)", rgbToHex(parseColor(args.value)))

CallRgbToHex ==
    /\ out = NoCall
    /\ args.kind = "rgb"
    /\ Answered("rgbToHex", rgbToHex(args.rgb))

CallRgbToHsl ==
    /\ out = NoCall
    /\ args.kind = "rgb"
    /\ Answered("rgbToHsl", rgbToHsl(args.rgb))

CallConverterRgbToHsl ==
    /\ out = NoCall
    /\ args.kind = "rgb"
    /\ Answered("converter.rgbToHsl", converterRgbToHsl(args.rgb))

\* the analyzer's parser, on the same strings
CallParseColorToHSL ==
    /\ out = NoCall
    /\ args.kind = "value"
    /\ Answered("parseColorToHSL", parseColorToHSL(args.value))

CallConvertColor ==
    /\ out = NoCall
    /\ args.kind = "convert"
    /\ Answered("convertColor", convertColor(args.color, args.options, now))

NextConversion ==
    \/ CallParseColor
    \/ CallParseColorToRGB
    \/ CallRoundTrip
    \/ CallRgbToHex
    \/ CallRgbToHsl
    \/ CallConverterRgbToHsl
    \/ CallParseColorToHSL
    \/ CallConvertColor
    \/ Return

SpecConversion == InitConversion /\ [][NextConversion]_vars

\* ------------------------------------------------------------------
\* C11: whenever parseColor, or the converter's parseColorToRGB, returns a
\* non-null result for a string, the r, g and b of the result are integers
\* in [0, 255].
InByteRange(x) == IsInteger(x) /\ 0 <= x.n /\ x.n <= 255

C11_ChannelsAreBytes ==
    (out.fn \in {"parseColor", "parseColorToRGB"} /\ out.result # null)
        => /\ InByteRange(out.result.r)
           /\ InByteRange(out.result.g)
           /\ InByteRange(out.result.b)

\* parseColor has returned r = 300 for rgb(300, 0, 0)
C11_ChannelBeyond255 ==
    /\ out.fn = "parseColor"
    /\ args.value = <<"r", "g", "b", "(", "3", "0", "0", ",", " ", "0", ",", " ", "0", ")">>
    /\ out.result.r = Num(300)

\* ------------------------------------------------------------------
\* C12: every HSL value the converter or the analyzer produces has a hue h
\* with 0 <= h < 360: rgbToHsl (both of them) for every RGB input with
\* integer channels in [0, 255], and parseColorToHSL for every string it
\* accepts.
C12_HueBelow360 ==
    (/\ out.fn \in {"rgbToHsl", "converter.rgbToHsl", "parseColorToHSL"}
     /\ out.result # null)
        => /\ ~Less(out.result.h, Num(0))
           /\ Less(out.result.h, Num(360))

\* rgbToHsl has returned h = 360 for the integer channels (255, 0, 1)
C12_HueRoundedTo360 ==
    /\ out.fn = "rgbToHsl"
    /\ args.rgb = RgbColor(Num(255), Num(0), Num(1), undefined)
    /\ out.result.h = Num(360)

\* ------------------------------------------------------------------
\* C13: rgbToHex appends a two-digit alpha suffix only when the input has
\* an alpha and that alpha is below 1; an alpha of exactly 1 yields the
\* seven characters #rrggbb.  This holds for the utility rgbToHex and for
\* the hex output of convertColor.

\* hex is #rrggbb, or #rrggbbaa for an alpha below 1
SuffixOnlyBelowOne(rgb, hex) ==
    /\ Len(hex) \in {7, 9}
    /\ Len(hex) = 9 => (rgb.a # undefined /\ Less(rgb.a, Num(1)))

\* the r, g and b of a parsed color are all within a byte
ByteChannels(rgb) ==
    rgb # null /\ InByteRange(rgb.r) /\ InByteRange(rgb.g) /\ InByteRange(rgb.b)

C13_AlphaSuffixOnlyBelowOne ==
    /\ out.fn = "rgbToHex" => SuffixOnlyBelowOne(args.rgb, out.result)
    /\ (/\ out.fn = "convertColor"
        /\ out.result.success
        /\ args.options.targetFormat = <<"h", "e", "x">>
        /\ ~args.options.shortHex
        /\ ByteChannels(parseColorToRGB(args.color.value)))
           => SuffixOnlyBelowOne(parseColorToRGB(args.color.value),
                                 out.result.converted)

\* convertColor has turned rgba(255, 0, 0, 1) into #ff0000ff
C13_OpaqueWithSuffix ==
    /\ out.fn = "convertColor"
    /\ args.color.value = <<"r", "g", "b", "a", "(", "2", "5", "5", ",", " ", "0", ",", " ", "0", ",", " ", "1", ")">>
    /\ out.result.converted = <<"#", "f", "f", "0", "0", "0", "0", "f", "f">>

\* ------------------------------------------------------------------
\* C14: for every valid lowercase six-digit hex string h (no alpha),
\* rgbToHex(parseColor(h)) equals h.
LowercaseSixDigitHex(h) ==
    /\ Len(h) = 7
    /\ h[1] = "#"
    /\ \A k \in 2..7 : h[k] \in {HexSeq[i] : i \in DOMAIN HexSeq}

C14_HexRoundTrip ==
    (out.fn = "rgbToHex(parseColor)" /\ LowercaseSixDigitHex(args.value))
        => out.result = args.value

\* the round trip of #0a0f00, whose channels each need their leading 0
C14_LeadingZeros ==
    /\ out.fn = "rgbToHex(parseColor)"
    /\ args.value = <<"#", "0", "a", "0", "f", "0", "0">>
    /\ out.result = <<"#", "0", "a", "0", "f", "0", "0">>

\* ------------------------------------------------------------------
\* C15: for every color whose value cannot be parsed, convertColor does not
\* throw and returns success = false with error set and converted equal to
\* the original value.

\* the value is no hex color, no rgb()/hsl() notation and no color name
NoColorText(value) ==
    Let(toLowerCase(Trim(value)), LAMBDA color :
        /\ ~(/\ StartsWith(color, <<"#">>)
             /\ Len(color) - 1 \in {3, 4, 6, 8}
             /\ SkipClass(color, 1, HexDigits) = Len(color))
        /\ ~StartsWith(color, <<"r", "g", "b">>)
        /\ ~StartsWith(color, <<"h", "s", "l">>)
        /\ \A k \in DOMAIN converterNamedColors :
               converterNamedColors[k][1] # color)

C15_UnparseableFails ==
    (out.fn = "convertColor" /\ NoColorText(args.color.value))
        => /\ ~out.result.success
           /\ "error" \in DOMAIN out.result
           /\ out.result.error # <<>>
           /\ out.result.converted = args.color.value

\* convertColor has reported the word constructor as converted
C15_InheritedNameConverted ==
    /\ out.fn = "convertColor"
    /\ args.color.value = <<"c", "o", "n", "s", "t", "r", "u", "c", "t", "o", "r">>
    /\ out.result.success
    /\ out.result.converted = <<"#", "N", "a", "N", "N", "a", "N", "N", "a", "N">>

\* ==================================================================
\* The palette analysis, called on bounded palettes
\* ==================================================================

\* the color values the palettes are made of
PaletteValues ==
    <<<<"#", "f", "f", "0", "0", "0", "0">>, <<"#", "0", "0", "f", "f", "f", "f">>, <<"h", "s", "l", "(", "3", "0", ",", " ", "1", "0", "0", "%", ",", " ", "5", "0", "%", ")">>, <<"#", "0", "f", "f">>, <<"#", "F", "F", "0", "0", "0", "1">>,
      <<"h", "s", "l", "(", "4", "0", "0", ",", " ", "5", "0", "%", ",", " ", "5", "0", "%", ")">>, <<"r", "g", "b", "(", "0", ",", " ", "2", "5", "5", ",", " ", "2", "5", "5", ")">>, <<"#", "0", "0", "f", "f", "0", "0">>>>

MaxPaletteValues == 6
MaxPalette == 2
MaxClusters == 1

\* maxClusters of clusterColors when the caller passes none
DefaultMaxClusters == 5

PalettePool ==
    {[value |-> PaletteValues[k], format |-> detectColorFormat(PaletteValues[k])] :
        k \in 1..MaxPaletteValues}

Palettes == UNION {[1..n -> PalettePool] : n \in 0..MaxPalette}

InitAnalysis ==
    /\ args \in [kind : {"palette"}, colors : Palettes,
                 maxClusters : (-1..MaxClusters) \cup {DefaultMaxClusters}]
    /\ content = <<>>
    /\ regex = FreshRegex
    /\ out = NoCall
    /\ NoMonitor

\* what a call of an analyzer function leaves: the result and which of
\* its objects and arrays are frozen
Analyzed(fn, result, shape) ==
    /\ out' = [fn |-> fn, result |-> result, shape |-> shape]
    /\ UNCHANGED <<content, regex, others>>

CallClusterColors ==
    /\ out = NoCall
    /\ args.kind = "palette"
    /\ Analyzed("clusterColors", clusterColors(args.colors, args.maxClusters),
                clusterColorsShape(args.colors, args.maxClusters))

CallAnalyzePalette ==
    /\ out = NoCall
    /\ args.kind = "palette"
    /\ Analyzed("analyzePalette", analyzePalette(args.colors),
                analyzePaletteShape(args.colors))

NextAnalysis ==
    \/ CallClusterColors
    \/ CallAnalyzePalette
    \/ Return

SpecAnalysis == InitAnalysis /\ [][NextAnalysis]_vars

\* the hue of a color as utils/colorConversion computes it
HueOfColor(value) == rgbToHsl(parseColor(toLowerCase(value))).h

\* ------------------------------------------------------------------
\* C16: for every input and every maxClusters, each color listed in a
\* cluster that clusterColors returns has a hue inside the hue band the
\* cluster declares by its label.
InBandOf(label, h) ==
    \E k \in DOMAIN hueRanges :
        /\ hueRanges[k].label = label
        /\ ~Less(h, Num(hueRanges[k].min))
        /\ Less(h, Num(hueRanges[k].max))

C16_ClusterColorsInBand ==
    out.fn = "clusterColors" =>
        \A k \in DOMAIN out.result :
            "label" \in DOMAIN out.result[k] =>
                \A j \in DOMAIN out.result[k].colors :
                    InBandOf(out.result[k].label,
                             HueOfColor(out.result[k].colors[j]))

\* a cluster with the band Orange that holds the hue 30, the lower end of
\* the band
C16_LowerEndOfBand ==
    /\ out.fn = "clusterColors"
    /\ \E k \in DOMAIN out.result :
           /\ "label" \in DOMAIN out.result[k]
           /\ out.result[k].label = <<"O", "r", "a", "n", "g", "e">>
           /\ out.result[k].colors = <<<<"h", "s", "l", "(", "3", "0", ",", " ", "1", "0", "0", "%", ",", " ", "5", "0", "%", ")">>>>

\* ------------------------------------------------------------------
\* C17: for any palette of exactly two colors whose hues differ by more
\* than 150 and less than 210 degrees, the harmony that analyzePalette
\* reports has type complementary and confidence 0.9.
HueDifference(colors) ==
    Abs(HueOfColor(colors[1].value).n - HueOfColor(colors[2].value).n)

OppositePair(colors) ==
    /\ Len(colors) = 2
    /\ \A k \in 1..2 : parseColor(toLowerCase(colors[k].value)) # null
    /\ HueDifference(colors) > 150
    /\ HueDifference(colors) < 210

C17_OppositePairIsComplementary ==
    (out.fn = "analyzePalette" /\ OppositePair(args.colors))
        => /\ out.result.harmony.type = "complementary"
           /\ out.result.harmony.confidence = Ratio(9, 10)

\* the analysis of #ff0000 with #0ff, hues 0 and 180, has reported no
\* harmony
C17_ShortHexNotAnalyzed ==
    /\ out.fn = "analyzePalette"
    /\ [k \in 1..Len(args.colors) |-> args.colors[k].value] = <<<<"#", "f", "f", "0", "0", "0", "0">>, <<"#", "0", "f", "f">>>>
    /\ out.result.harmony.type = "none"
    /\ out.result.harmony.confidence = Num(0)

\* ------------------------------------------------------------------
\* C24: every object and array returned by an analyzer function
\* (clusterColors and analyzePalette among them), including its nested
\* arrays, is frozen, so no caller can mutate a result after it is
\* returned.
C24_ResultsDeeplyFrozen ==
    out.fn \in {"clusterColors", "analyzePalette"} =>
        DeeplyFrozen(out.shape)

\* clusterColors has returned clusters in an array that is not frozen,
\* the colors array of each cluster not frozen either
C24_MutableClusterArray ==
    /\ out.fn = "clusterColors"
    /\ out.result # <<>>
    /\ ~out.shape.frozen
    /\ \A k \in DOMAIN out.shape.parts :
           ~out.shape.parts[k].parts[1].frozen

\* ==================================================================
\* commands/extract.ts: the command colors-le.extractColors
\* ==================================================================

\* Math.max of two integers
Max(a, b) == IF a > b THEN a ELSE b

\* config.get(key, default) of the settings that take a default
DefaultManyDocumentsThreshold == 8
DefaultFileSizeWarnBytes == 1000000

\* the least safetyFileSizeWarnBytes that getConfiguration gives
MinFileSizeWarnBytes == 1000

\* the longest text the command copies to the clipboard
ClipboardLimit == 1000000

\* getConfiguration(): the properties the command reads.  settings holds
\* what the user has set; fileSizeWarnBytes and manyDocumentsThreshold are
\* <<>> when not set
getConfiguration(settings) ==
    [copyToClipboardEnabled |-> settings.copyToClipboardEnabled,
     openResultsSideBySide |-> settings.openResultsSideBySide,
     safetyEnabled |-> settings.safetyEnabled,
     safetyFileSizeWarnBytes |->
         Max(MinFileSizeWarnBytes,
             IF settings.fileSizeWarnBytes = <<>>
             THEN DefaultFileSizeWarnBytes
             ELSE settings.fileSizeWarnBytes[1]),
     safetyManyDocumentsThreshold |->
         Max(1, IF settings.manyDocumentsThreshold = <<>>
                THEN DefaultManyDocumentsThreshold
                ELSE settings.manyDocumentsThreshold[1])]

\* handleSafetyChecks with a threshold that lets one more character pass
handleSafetyChecksLenient(text, config) ==
    ~config.safetyEnabled \/ ~(Len(text) > config.safetyFileSizeWarnBytes + 1)

\* handleSafetyChecks(document, config, options).proceed, with
\* options.customThresholds.fileSizeBytes = config.safetyFileSizeWarnBytes
handleSafetyChecks(text, config) ==
    ~config.safetyEnabled \/ ~(Len(text) > config.safetyFileSizeWarnBytes)

\* handleSafetyChecksWithUserConfirmation(...).proceed with allowOverride;
\* userChoice is the button taken in the modal warning
handleSafetyChecksWithUserConfirmation(text, config, userChoice) ==
    handleSafetyChecks(text, config) \/ userChoice = "Continue Anyway"

\* values.join('\n')
RECURSIVE JoinLines(_)
JoinLines(values) ==
    IF values = <<>> THEN <<>>
    ELSE IF Len(values) = 1 THEN values[1]
    ELSE values[1] \o <<"\n">> \o JoinLines(Tail(values))

\* result.colors.map((color) => color.value)
ColorValuesOf(colors) == [k \in 1..Len(colors) |-> colors[k].value]

\* what the command leaves when it ends before it has a result;
\* extracted tells whether extractColors was called
Ended(outcome, r) ==
    [outcome |-> outcome, output |-> <<>>, clipboard |-> <<>>,
     content |-> content, regex |-> r, extracted |-> FALSE]

\* the same after the call of extractColors
Extracted(res) == [res EXCEPT !.extracted = TRUE]

\* the command from "Output colors in original format" on: text goes to a
\* new document beside the editor or replaces the active document, unless
\* the editor refuses (shown = FALSE); then it goes to the clipboard
Deliver(text, config, shown, r) ==
    [outcome |-> IF shown THEN "done" ELSE "open-failed",
     output |-> IF shown THEN text ELSE <<>>,
     clipboard |-> IF config.copyToClipboardEnabled
                      /\ ~(Len(text) > ClipboardLimit)
                   THEN text ELSE <<>>,
     content |-> IF shown /\ ~config.openResultsSideBySide THEN text
                 ELSE content,
     regex |-> r, extracted |-> TRUE]

\* the command from "Handle extraction errors" on
AfterExtraction(result, config, shown, r) ==
    IF ~result.success /\ Len(result.errors) > 0 THEN Ended("errors", r)
    ELSE IF Len(result.colors) = 0 THEN Ended("no-colors", r)
    ELSE Deliver(JoinLines(ColorValuesOf(result.colors)), config, shown, r)

\* the callback of notifier.showProgress and what follows it; token tells
\* when the user cancels: "before" or "after" the extraction, or "never"
Extraction(languageId, config, token, clock, shown) ==
    IF token = "before" THEN Ended("error", regex)
    ELSE Let(extractColors(content, languageId,
                           config.safetyManyDocumentsThreshold, clock,
                           regex, NoFault),
             LAMBDA res :
                 Extracted(
                     IF token = "after" THEN Ended("error", res.regex)
                     ELSE AfterExtraction(res.result, config, shown,
                                          res.regex)))

\* the callback registered for colors-le.extractColors
\* run holds what happens while it runs: userChoice, token, clock, shown
extractColorsCommand(editor, languageId, config, run) ==
    IF ~editor THEN Ended("no-editor", regex)
    ELSE IF ~handleSafetyChecksWithUserConfirmation(content, config,
                                                    run.userChoice)
    THEN Ended("safety", regex)
    ELSE Extraction(languageId, config, run.token, run.clock, run.shown)

\* ------------------------------------------------------------------
\* The command on bounded documents and settings
\* ------------------------------------------------------------------
CommandDocuments ==
    <<<<"#", "0", "0", "1", " ", "#", "0", "0", "2", " ", "#", "0", "0", "3", "\n", "#", "0", "0", "4", " ", "#", "0", "0", "5", " ", "#", "0", "0", "6", "\n", "#", "0", "0", "7", " ", "#", "0", "0", "8", " ", "#", "0", "0", "9">>,
      <<"a", "{", "c", "o", "l", "o", "r", ":", "#", "f", "0", "0", ";", "b", ":", "#", "0", "f", "0", "}">>,
      <<"a", "{", "}">>,
      <<" ", "\n">>,
      <<"a", "{", "c", "o", "l", "o", "r", ":", "r", "g", "b", "(", "0", ",", "0", ",", "0", ")", "}">>>>

MaxCommandDocs == 4
MaxThreshold == 1

CommandPool == {CommandDocuments[k] : k \in 1..MaxCommandDocs}

Settings ==
    [copyToClipboardEnabled : BOOLEAN,
     openResultsSideBySide : BOOLEAN,
     safetyEnabled : BOOLEAN,
     fileSizeWarnBytes : {<<>>},
     manyDocumentsThreshold : {<<>>} \cup {<<n>> : n \in 0..MaxThreshold}]

InitCommand ==
    /\ args \in [kind : {"command"}, editor : BOOLEAN,
                 languageId : {"css", "plaintext"}, settings : Settings]
    /\ content = <<>>
    /\ regex = FreshRegex
    /\ out = NoCall
    /\ NoMonitor

\* what a run of the command leaves; userChoice is the button the user
\* takes when the override prompt is shown
Ran(res, userChoice) ==
    /\ out' = [fn |-> "extractColorsCommand", document |-> content,
               outcome |-> res.outcome, output |-> res.output,
               clipboard |-> res.clipboard, extracted |-> res.extracted,
               userChoice |-> userChoice]
    /\ content' = res.content
    /\ regex' = res.regex
    /\ UNCHANGED others

RunExtractCommand(userChoice, token, clock, shown) ==
    /\ out = NoCall
    /\ args.kind = "command"
    /\ Ran(extractColorsCommand(
               args.editor, args.languageId, getConfiguration(args.settings),
               [userChoice |-> userChoice, token |-> token, clock |-> clock,
                shown |-> shown]),
           userChoice)

NextCommand ==
    \/ \E text \in CommandPool : OpenDocument(text)
    \/ \E userChoice \in {"Continue Anyway", "Cancel"},
          token \in {"never", "before", "after"},
          clock \in {"never", "start", "end"},
          shown \in BOOLEAN :
           RunExtractCommand(userChoice, token, clock, shown)
    \/ Return

SpecCommand == InitCommand /\ [][NextCommand]_vars

\* ------------------------------------------------------------------
\* C18: when the Extract Colors command completes successfully, its output
\* holds every color the extractor found in the active document, one per
\* line in extraction order; none is dropped.
FoundIn(text, languageId) ==
    extractColorsByFileType(text, determineFileType(languageId), FreshRegex,
                            NoFault).colors

C18_OutputHoldsEveryColor ==
    (out.fn = "extractColorsCommand" /\ out.outcome = "done")
        => out.output = JoinLines(ColorValuesOf(
                            FoundIn(out.document, args.languageId)))

\* with no setting changed, the command has put out eight of the nine
\* colors of a document
C18_NinthColorDropped ==
    /\ out.fn = "extractColorsCommand"
    /\ out.outcome = "done"
    /\ args.settings.manyDocumentsThreshold = <<>>
    /\ out.document = CommandDocuments[1]
    /\ Len(FoundIn(out.document, args.languageId)) = 9
    /\ Len(Split(out.output)) = 8

\* ==================================================================
\* utils/performance.ts: class PerformanceMonitor
\* ==================================================================

\* recordMetrics keeps the last 50 metrics
MetricsLimit == 50

\* cleanupCache removes at most 50 entries when the cache is too large
EvictionBatch == 50

\* thresholds.maxCacheSize of createPerformanceMonitor() without a config
DefaultMaxCacheSize == 1000

\* 5 * 60 * 1000: the default maxAge of getCached and the maxAge of
\* cleanupCache
FiveMinutes == 5 * 60 * 1000

\* new PerformanceMonitor(thresholds); currentOperation is <<>> for null,
\* cache holds the entries of the Map in insertion order
PerformanceMonitor(thresholds) ==
    [metrics |-> <<>>, cache |-> <<>>, thresholds |-> thresholds,
     currentOperation |-> <<>>]

\* createPerformanceMonitor(config) for a config that sets maxCacheSize and
\* leaves the other thresholds at their defaults
createPerformanceMonitor(maxCacheSize) ==
    PerformanceMonitor([maxDuration |-> 5000,
                        maxMemoryUsage |-> 100 * 1024 * 1024,
                        maxCpuUsage |-> 1000 * 1000,
                        minThroughput |-> 1000,
                        maxCacheSize |-> maxCacheSize])

\* start(operation, inputSize) at performance.now() = t
start(m, operation, inputSize, t) ==
    [m EXCEPT !.currentOperation =
        <<[operation |-> operation, startTime |-> t,
           inputSize |-> inputSize]>>]

\* remainingEntries.sort((a, b) => a[1].timestamp - b[1].timestamp): the
\* sort is stable
RECURSIVE SortByTimestamp(_)
SortByTimestamp(entries) ==
    IF entries = <<>> THEN <<>>
    ELSE Let(CHOOSE k \in 1..Len(entries) :
                 \A j \in 1..Len(entries) :
                     \/ entries[k].timestamp < entries[j].timestamp
                     \/ entries[k].timestamp = entries[j].timestamp /\ k <= j,
             LAMBDA k :
                 <<entries[k]>> \o SortByTimestamp(
                     SubSeq(entries, 1, k - 1)
                         \o SubSeq(entries, k + 1, Len(entries))))

\* the keys of the first Math.min(50, n) of the sorted entries
OldestKeys(entries) ==
    Let(SortByTimestamp(entries), LAMBDA sorted :
        {sorted[k].key :
            k \in 1..(IF EvictionBatch < Len(entries) THEN EvictionBatch
                      ELSE Len(entries))})

\* the second half of cleanupCache
LimitCacheSize(entries, maxCacheSize) ==
    IF Len(entries) > maxCacheSize
    THEN Let(OldestKeys(entries), LAMBDA oldest :
             SelectSeq(entries, LAMBDA e : e.key \notin oldest))
    ELSE entries

\* cleanupCache() at Date.now() = t
cleanupCache(cache, maxCacheSize, t) ==
    LimitCacheSize(
        SelectSeq(cache, LAMBDA e : ~(t - e.timestamp > FiveMinutes)),
        maxCacheSize)

\* this.metrics.push(metrics) with no shift
PushMetricsUnlimited(list, metrics) == Append(list, metrics)

\* this.metrics.push(metrics) and the shift that follows it
PushMetrics(list, metrics) ==
    IF Len(list) + 1 > MetricsLimit THEN Tail(Append(list, metrics))
    ELSE Append(list, metrics)

\* recordMetrics(metrics) at Date.now() = t
recordMetrics(m, metrics, t) ==
    [m EXCEPT !.metrics = PushMetrics(@, metrics),
              !.cache = cleanupCache(@, m.thresholds.maxCacheSize, t)]

\* the metrics that end() builds; usage holds what process reports
MetricsOf(op, outputSize, colorCount, warnings, errors, t, usage) ==
    [operation |-> op.operation, startTime |-> op.startTime, endTime |-> t,
     duration |-> t - op.startTime, inputSize |-> op.inputSize,
     outputSize |-> outputSize, colorCount |-> colorCount,
     memoryUsage |-> usage.memoryUsage, cpuUsage |-> usage.cpuUsage,
     cacheHits |-> 0, cacheMisses |-> 0,
     warnings |-> warnings, errors |-> errors]

\* an end() that records whenever an operation was ever started: it leaves
\* currentOperation as it is
endKeepingOperation(m, outputSize, colorCount, warnings, errors, t, usage) ==
    IF m.currentOperation = <<>> THEN [monitor |-> m, result |-> <<>>]
    ELSE Let(MetricsOf(m.currentOperation[1], outputSize, colorCount,
                       warnings, errors, t, usage),
             LAMBDA metrics :
                 [monitor |-> recordMetrics(m, metrics, t),
                  result |-> <<metrics>>])

\* end(outputSize, colorCount, warnings, errors): the monitor after it and
\* what it returns, <<>> for null
end(m, outputSize, colorCount, warnings, errors, t, usage) ==
    IF m.currentOperation = <<>> THEN [monitor |-> m, result |-> <<>>]
    ELSE Let(MetricsOf(m.currentOperation[1], outputSize, colorCount,
                       warnings, errors, t, usage),
             LAMBDA metrics :
                 [monitor |-> [recordMetrics(m, metrics, t) EXCEPT
                                   !.currentOperation = <<>>],
                  result |-> <<metrics>>])

\* this.cache.get(key): the index of the entry, 0 when there is none
CacheIndex(cache, key) ==
    IF \E k \in 1..Len(cache) : cache[k].key = key
    THEN CHOOSE k \in 1..Len(cache) : cache[k].key = key
    ELSE 0

\* this.cache.set(key, entry): an entry that is there keeps its place
CacheSet(cache, entry) ==
    IF CacheIndex(cache, entry.key) = 0 THEN Append(cache, entry)
    ELSE [cache EXCEPT ![CacheIndex(cache, entry.key)] = entry]

\* getCached(key, compute, maxAge) at Date.now() = t, where compute()
\* returns data: the monitor after it, what it returns, and whether it has
\* invoked compute
getCachedAt(m, k, key, data, maxAge, t) ==
    IF k # 0 /\ t - m.cache[k].timestamp < maxAge
    THEN [monitor |-> [m EXCEPT !.cache[k].hits = @ + 1],
          result |-> m.cache[k].data, invoked |-> FALSE]
    ELSE [monitor |-> [m EXCEPT !.cache =
                           CacheSet(@, [key |-> key, data |-> data,
                                        timestamp |-> t, hits |-> 0])],
          result |-> data, invoked |-> TRUE]

getCached(m, key, data, maxAge, t) ==
    getCachedAt(m, CacheIndex(m.cache, key), key, data, maxAge, t)

\* getMetrics()
getMetrics(m) == m.metrics

\* clear()
clear(m) == [m EXCEPT !.metrics = <<>>, !.cache = <<>>]

\* ------------------------------------------------------------------
\* A PerformanceMonitor and its callers
\* ------------------------------------------------------------------
CacheKeys == <<"test-key", "other-key", "third-key">>

MaxKeys == 2
MaxData == 2
MaxTicks == 2
MaxHits == 1
MaxEnds == 1
MaxCalls == 120
SmallCacheSize == 1

KeyPool == {CacheKeys[k] : k \in 1..MaxKeys}

\* the time that passes between two looks at the clock
TickMs == 3 * 60 * 1000

MaxAges == {FiveMinutes, 2 * FiveMinutes}

\* what process.memoryUsage() and process.cpuUsage() report
Usages == {[memoryUsage |-> 0, cpuUsage |-> 0]}

\* the metrics of a finished operation, as a caller hands them to
\* recordMetrics
SampleMetrics ==
    MetricsOf([operation |-> "test-operation", startTime |-> 0,
               inputSize |-> 1000], 500, 10, 0, 0, 0,
              [memoryUsage |-> 0, cpuUsage |-> 0])

NothingComputed == [key \in KeyPool |-> <<>>]

\* neither on the monitor nor on the tracker has start() been called
NotStarted == [monitor |-> FALSE, tracker |-> FALSE]

\* what the methods of the monitor never touch
aside == <<content, regex, args, tracker, service>>

InitMonitorWith(sizes) ==
    /\ monitor \in {createPerformanceMonitor(size) : size \in sizes}
    /\ now = 0
    /\ computed = NothingComputed
    /\ recorded = 0
    /\ out = NoCall
    /\ tracker = <<>>
    /\ service = <<>>
    /\ started = NotStarted
    /\ content = <<>>
    /\ regex = FreshRegex
    /\ args = <<>>

InitMonitor == InitMonitorWith({SmallCacheSize, DefaultMaxCacheSize})

InitMetrics == InitMonitorWith({DefaultMaxCacheSize})

Tick ==
    /\ now < MaxTicks * TickMs
    /\ now' = now + TickMs
    /\ UNCHANGED <<aside, out, monitor, computed, recorded, started>>

CallStart(operation, inputSize) ==
    /\ monitor' = start(monitor, operation, inputSize, now)
    /\ out' = [fn |-> "start"]
    /\ started' = [started EXCEPT !.monitor = TRUE]
    /\ UNCHANGED <<aside, now, computed, recorded>>

\* what a call of end() leaves; out keeps whether start() had been called
\* and the metrics the monitor held before the call
Ended_(res) ==
    /\ monitor' = res.monitor
    /\ out' = [fn |-> "end", result |-> res.result,
               started |-> started.monitor, before |-> monitor.metrics]
    /\ recorded' = recorded + Len(res.result)
    /\ started' = [started EXCEPT !.monitor = FALSE]
    /\ UNCHANGED <<aside, now, computed>>

CallEnd(outputSize, colorCount, warnings, errors) ==
    \E usage \in Usages :
        Ended_(end(monitor, outputSize, colorCount, warnings, errors, now,
                   usage))

CallRecordMetrics(metrics) ==
    /\ monitor' = recordMetrics(monitor, metrics, now)
    /\ out' = [fn |-> "recordMetrics"]
    /\ recorded' = recorded + 1
    /\ UNCHANGED <<aside, started, now, computed>>

\* what a call of getCached leaves; before is what compute() had last
\* returned for the key
Cached(key, maxAge, data, res) ==
    /\ monitor' = res.monitor
    /\ out' = [fn |-> "getCached", key |-> key, maxAge |-> maxAge,
               at |-> now, before |-> computed[key],
               result |-> res.result, invoked |-> res.invoked]
    /\ computed' = IF res.invoked
                   THEN [computed EXCEPT ![key] =
                            <<[data |-> data, at |-> now]>>]
                   ELSE computed
    /\ UNCHANGED <<aside, started, now, recorded>>

CallGetCached(key, data, maxAge) ==
    /\ \A k \in 1..Len(monitor.cache) :
           (/\ monitor.cache[k].key = key
            /\ now - monitor.cache[k].timestamp < maxAge)
               => monitor.cache[k].hits < MaxHits
    /\ Cached(key, maxAge, data, getCached(monitor, key, data, maxAge, now))

CallGetMetrics ==
    /\ out' = [fn |-> "getMetrics", result |-> getMetrics(monitor)]
    /\ UNCHANGED <<aside, started, monitor, now, computed, recorded>>

CallClear ==
    /\ monitor' = clear(monitor)
    /\ out' = [fn |-> "clear"]
    /\ computed' = NothingComputed
    /\ recorded' = 0
    /\ UNCHANGED <<aside, started, now>>

NextMonitor ==
    \/ Tick
    \/ CallStart("test-operation", 1000)
    \/ recorded < MaxEnds /\ CallEnd(500, 10, 0, 0)
    \/ \E key \in KeyPool, data \in 1..MaxData, maxAge \in MaxAges :
           CallGetCached(key, data, maxAge)
    \/ CallClear

SpecMonitor == InitMonitor /\ [][NextMonitor]_vars

NextMetrics ==
    \/ CallStart("test-operation", 1000)
    \/ recorded < MaxCalls /\ CallEnd(500, 10, 0, 0)
    \/ recorded < MaxCalls /\ CallRecordMetrics(SampleMetrics)
    \/ CallGetMetrics
    \/ CallClear

SpecMetrics == InitMetrics /\ [][NextMetrics]_vars

\* ------------------------------------------------------------------
\* C19: for any key, once getCached has computed a value, every later
\* getCached call with that key made before maxAge has elapsed, with no
\* clear() in between, returns that same value and does not invoke compute
\* again, whatever start and end calls are interleaved.
C19_CachedUntilMaxAge ==
    (/\ out.fn = "getCached"
     /\ out.before # <<>>
     /\ out.at - out.before[1].at < out.maxAge)
        => /\ out.result = out.before[1].data
           /\ ~out.invoked

\* on a monitor with the default thresholds, getCached has invoked compute
\* again within maxAge of the last computation
C19_RecomputedWithinMaxAge ==
    /\ monitor.thresholds.maxCacheSize = DefaultMaxCacheSize
    /\ out.fn = "getCached"
    /\ out.before # <<>>
    /\ out.at - out.before[1].at < out.maxAge
    /\ out.invoked

\* ------------------------------------------------------------------
\* C20: after any sequence of start, end and recordMetrics calls,
\* getMetrics() returns at most 100 entries.
C20_AtMostHundredMetrics ==
    out.fn = "getMetrics" => Len(out.result) <= 100

\* getMetrics() has returned 50 entries after more than 100 were recorded
C20_FiftyOfManyKept ==
    /\ out.fn = "getMetrics"
    /\ recorded > 100
    /\ Len(out.result) = MetricsLimit

\* ==================================================================
\* utils/performance.ts: createPerformanceTracker and getReport
\* ==================================================================

\* createPerformanceTracker(config): the monitor and the currentOperation
\* of the closure
createPerformanceTracker(maxCacheSize) ==
    [monitor |-> createPerformanceMonitor(maxCacheSize),
     currentOperation |-> <<>>]

\* tracker.start(operation, inputSize) at performance.now() = t
trackerStart(tr, operation, inputSize, t) ==
    [tr EXCEPT !.currentOperation =
        <<[operation |-> operation, startTime |-> t,
           inputSize |-> inputSize]>>]

\* what tracker.end leaves once monitor.end has returned res
TrackerEnded(res) ==
    [tracker |-> [monitor |-> res.monitor, currentOperation |-> <<>>],
     result |-> res.result]

\* tracker.end(outputSize, colorCount, warnings, errors): the tracker
\* after it and what it returns, <<>> for null
trackerEnd(tr, outputSize, colorCount, warnings, errors, t, usage) ==
    IF tr.currentOperation = <<>> THEN [tracker |-> tr, result |-> <<>>]
    ELSE TrackerEnded(
             end(start(tr.monitor, tr.currentOperation[1].operation,
                       tr.currentOperation[1].inputSize, t),
                 outputSize, colorCount, warnings, errors, t, usage))

\* tracker.clear()
trackerClear(tr) == [tr EXCEPT !.monitor = clear(@)]

\* metrics.reduce((sum, m) => sum + m[field], 0)
RECURSIVE Total(_, _)
Total(metrics, field) ==
    IF metrics = <<>> THEN 0
    ELSE metrics[1][field] + Total(Tail(metrics), field)

\* this.metrics.slice(-10)
LastTen(metrics) ==
    SubSeq(metrics, IF Len(metrics) > 10 THEN Len(metrics) - 9 ELSE 1,
           Len(metrics))

\* totalTime > 0 ? (totalColors / totalTime) * 1000 : 0
Throughput(totalColors, totalTime) ==
    IF totalTime > 0 THEN Mul(Ratio(totalColors, totalTime), Num(1000))
    ELSE Num(0)

\* totalMemory > 0 ? (totalColors / totalMemory) * 1024 * 1024 : 0
MemoryEfficiency(totalColors, totalMemory) ==
    IF totalMemory > 0
    THEN Mul(Mul(Ratio(totalColors, totalMemory), Num(1024)), Num(1024))
    ELSE Num(0)

\* totalCacheOps > 0 ? (totalCacheHits / totalCacheOps) * 100 : 0
CacheEfficiency(hits, misses) ==
    IF hits + misses > 0 THEN Mul(Ratio(hits, hits + misses), Num(100))
    ELSE Num(0)

\* generateRecommendations(metrics, averageDuration, throughput,
\* memoryEfficiency): the keys of the messages
generateRecommendations(thresholds, metrics, averageDuration, throughput, memoryEfficiency) ==
    (IF Less(Num(thresholds.maxDuration), averageDuration)
     THEN <<"runtime.performance.recommendation.slow">> ELSE <<>>)
    \o (IF Less(throughput, Num(thresholds.minThroughput))
        THEN <<"runtime.performance.recommendation.low-throughput">>
        ELSE <<>>)
    \o (IF Less(memoryEfficiency, Num(1000))
        THEN <<"runtime.performance.recommendation.memory">> ELSE <<>>)
    \o (IF Less(Ratio(1, 10), Ratio(Total(metrics, "errors"), Len(metrics)))
        THEN <<"runtime.performance.recommendation.errors">> ELSE <<>>)

\* getDefaultMetrics()
getDefaultMetrics ==
    [operation |-> "unknown", startTime |-> 0, endTime |-> 0, duration |-> 0,
     inputSize |-> 0, outputSize |-> 0, colorCount |-> 0, memoryUsage |-> 0,
     cpuUsage |-> 0, cacheHits |-> 0, cacheMisses |-> 0, warnings |-> 0,
     errors |-> 0]

\* getEmptyReport()
getEmptyReport ==
    [metrics |-> getDefaultMetrics, averageDuration |-> Num(0),
     throughput |-> Num(0), memoryEfficiency |-> Num(0),
     cacheEfficiency |-> Num(0), recommendations |-> <<>>]

\* the report over recentMetrics, which is not empty
ReportOf(thresholds, recentMetrics, averageDuration, throughput, memoryEfficiency) ==
    [metrics |-> recentMetrics[1],
     averageDuration |-> averageDuration,
     throughput |-> throughput,
     memoryEfficiency |-> memoryEfficiency,
     cacheEfficiency |-> CacheEfficiency(Total(recentMetrics, "cacheHits"),
                                         Total(recentMetrics, "cacheMisses")),
     recommendations |-> generateRecommendations(
         thresholds, recentMetrics, averageDuration, throughput,
         memoryEfficiency)]

\* getReport() over recentMetrics
getReportOver(thresholds, recentMetrics) ==
    IF recentMetrics = <<>> THEN getEmptyReport
    ELSE ReportOf(thresholds, recentMetrics,
             Ratio(Total(recentMetrics, "duration"), Len(recentMetrics)),
             Throughput(Total(recentMetrics, "colorCount"),
                        Total(recentMetrics, "duration")),
             MemoryEfficiency(Total(recentMetrics, "colorCount"),
                              Total(recentMetrics, "memoryUsage")))

\* getReport()
getReport(m) == getReportOver(m.thresholds, LastTen(m.metrics))

\* ------------------------------------------------------------------
\* A caller that measures operations on a monitor or on a tracker
\* ------------------------------------------------------------------
MaxReports == 2

InitTracker ==
    /\ args \in [object : {"monitor", "tracker"}]
    /\ monitor = createPerformanceMonitor(DefaultMaxCacheSize)
    /\ tracker = createPerformanceTracker(DefaultMaxCacheSize)
    /\ started = NotStarted
    /\ now = 0
    /\ computed = NothingComputed
    /\ recorded = 0
    /\ out = NoCall
    /\ service = <<>>
    /\ content = <<>>
    /\ regex = FreshRegex

\* what the methods of the tracker never touch
apart == <<content, regex, args, service, monitor, now, computed, recorded>>

CallTrackerStart(operation, inputSize) ==
    /\ tracker' = trackerStart(tracker, operation, inputSize, now)
    /\ out' = [fn |-> "tracker.start"]
    /\ started' = [started EXCEPT !.tracker = TRUE]
    /\ UNCHANGED apart

\* what a call of tracker.end() leaves; out keeps whether tracker.start()
\* had been called and the metrics held before the call
TrackerReturned(res) ==
    /\ tracker' = res.tracker
    /\ out' = [fn |-> "tracker.end", result |-> res.result,
               started |-> started.tracker,
               before |-> tracker.monitor.metrics]
    /\ started' = [started EXCEPT !.tracker = FALSE]
    /\ UNCHANGED apart

CallTrackerEnd(outputSize, colorCount, warnings, errors) ==
    \E usage \in Usages :
        TrackerReturned(trackerEnd(tracker, outputSize, colorCount, warnings,
                                   errors, now, usage))

CallTrackerClear ==
    /\ tracker' = trackerClear(tracker)
    /\ out' = [fn |-> "tracker.clear"]
    /\ UNCHANGED <<apart, started>>

CallGetReport ==
    /\ out' = [fn |-> "getReport", result |-> getReport(monitor)]
    /\ UNCHANGED <<aside, started, monitor, now, computed, recorded>>

OnMonitor ==
    /\ args.object = "monitor"
    /\ \/ CallStart("test-operation", 1000)
       \/ recorded < MaxReports /\ CallEnd(500, 10, 0, 0)
       \/ CallGetReport
       \/ CallClear

OnTracker ==
    /\ args.object = "tracker"
    /\ \/ CallTrackerStart("test-operation", 1000)
       \/ /\ Len(tracker.monitor.metrics) < MaxReports
          /\ CallTrackerEnd(500, 10, 0, 0)
       \/ CallTrackerClear

NextTracker ==
    \/ Tick
    \/ OnMonitor
    \/ OnTracker

SpecTracker == InitTracker /\ [][NextTracker]_vars

\* ------------------------------------------------------------------
\* C21: on a PerformanceMonitor or a PerformanceTracker, end() returns null
\* and records no metric unless start() was called since the previous
\* end(); so each start() is followed by at most one end() that does not
\* return null.
MetricsHeld ==
    IF out.fn = "end" THEN monitor.metrics ELSE tracker.monitor.metrics

C21_EndNeedsStart ==
    (out.fn \in {"end", "tracker.end"} /\ ~out.started)
        => /\ out.result = <<>>
           /\ MetricsHeld = out.before

\* a second end() after one start(): it has returned null and the one
\* metric recorded before is all the monitor holds
C21_SecondEndIsNull ==
    /\ out.fn = "end"
    /\ ~out.started
    /\ out.result = <<>>
    /\ Len(out.before) = 1
    /\ monitor.metrics = out.before

\* ------------------------------------------------------------------
\* C22: after one or more operations have been recorded on a
\* PerformanceMonitor, getReport().metrics is the metrics of the operation
\* recorded most recently.
C22_ReportHoldsLatestMetrics ==
    (out.fn = "getReport" /\ monitor.metrics # <<>>)
        => out.result.metrics = monitor.metrics[Len(monitor.metrics)]

\* with two operations recorded, the report holds the metrics of the first
C22_ReportHoldsOldestMetrics ==
    /\ out.fn = "getReport"
    /\ Len(monitor.metrics) = 2
    /\ monitor.metrics[1] # monitor.metrics[2]
    /\ out.result.metrics = monitor.metrics[1]

\* ==================================================================
\* utils/performance.ts: createPerformanceMonitoringService
\* ==================================================================

\* createPerformanceMonitoringService(): disposed and activeOperations of
\* the closure.  activeOperations holds, in insertion order, the name and
\* the handle registered under it; handles holds startTime and ended of
\* every operationTracker that startOperation has made, by number
createPerformanceMonitoringService ==
    [disposed |-> FALSE, activeOperations |-> <<>>, handles |-> <<>>]

\* activeOperations.delete(operation)
DeleteOperation(activeOperations, operation) ==
    SelectSeq(activeOperations, LAMBDA e : e.operation # operation)

\* activeOperations.set(operation, operationTracker)
SetOperation(activeOperations, operation, handle) ==
    IF \E k \in 1..Len(activeOperations) :
           activeOperations[k].operation = operation
    THEN [k \in 1..Len(activeOperations) |->
             IF activeOperations[k].operation = operation
             THEN [operation |-> operation, handle |-> handle]
             ELSE activeOperations[k]]
    ELSE Append(activeOperations,
                [operation |-> operation, handle |-> handle])

\* startOperation(operation) at Date.now() = t: the service after it, and
\* the handle it returns or that it threw
startOperation(s, operation, t) ==
    IF s.disposed THEN [service |-> s, threw |-> TRUE, handle |-> 0]
    ELSE [service |->
              [s EXCEPT
                  !.handles = Append(@, [operation |-> operation,
                                         startTime |-> t, ended |-> FALSE]),
                  !.activeOperations =
                      SetOperation(@, operation, Len(s.handles) + 1)],
          threw |-> FALSE, handle |-> Len(s.handles) + 1]

\* operationTracker.cancel() of handle h
operationCancel(s, h) ==
    [s EXCEPT !.handles[h].ended = TRUE,
              !.activeOperations =
                  DeleteOperation(@, s.handles[h].operation)]

\* the metrics that operationTracker.end() returns
OperationMetrics(handle, t, memoryUsage) ==
    [operation |-> handle.operation, startTime |-> handle.startTime,
     endTime |-> t, duration |-> t - handle.startTime, inputSize |-> 0,
     outputSize |-> 0, colorCount |-> 0, memoryUsage |-> memoryUsage,
     cpuUsage |-> 0, cacheHits |-> 0, cacheMisses |-> 0, warnings |-> 0,
     errors |-> 0]

\* operationTracker.end() of handle h at Date.now() = t
operationEnd(s, h, t, memoryUsage) ==
    IF s.handles[h].ended
    THEN [service |-> s, threw |-> TRUE, result |-> <<>>]
    ELSE [service |-> operationCancel(s, h), threw |-> FALSE,
          result |-> <<OperationMetrics(s.handles[h], t, memoryUsage)>>]

\* operationTracker.isActive() of handle h
isActive(s, h) == ~s.handles[h].ended

\* for (const operation of activeOperations.values()) operation.cancel():
\* the registered handles are cancelled one after the other
RECURSIVE CancelAll(_, _)
CancelAll(s, registered) ==
    IF registered = <<>> THEN s
    ELSE CancelAll(operationCancel(s, registered[1].handle),
                   Tail(registered))

\* dispose()
dispose(s) ==
    [CancelAll(s, s.activeOperations) EXCEPT
        !.disposed = TRUE, !.activeOperations = <<>>]

\* ------------------------------------------------------------------
\* The service and the callers that hold its handles
\* ------------------------------------------------------------------
OperationNames == <<"extract", "analyze", "filter">>

MaxNames == 2
MaxHandles == 3

InitService ==
    /\ service = createPerformanceMonitoringService
    /\ now = 0
    /\ out = NoCall
    /\ content = <<>>
    /\ regex = FreshRegex
    /\ args = <<>>
    /\ monitor = <<>>
    /\ tracker = <<>>
    /\ computed = <<>>
    /\ recorded = 0
    /\ started = <<>>

\* what the service never touches
remote ==
    <<content, regex, args, monitor, tracker, computed, recorded, started,
      now>>

CallStartOperation(operation) ==
    /\ Len(service.handles) < MaxHandles
    /\ service' = startOperation(service, operation, now).service
    /\ out' = [fn |-> "startOperation",
               threw |-> startOperation(service, operation, now).threw,
               handle |-> startOperation(service, operation, now).handle]
    /\ UNCHANGED remote

CallOperationEnd(h) ==
    /\ service' = operationEnd(service, h, now, 0).service
    /\ out' = [fn |-> "operation.end", handle |-> h,
               threw |-> operationEnd(service, h, now, 0).threw,
               result |-> operationEnd(service, h, now, 0).result]
    /\ UNCHANGED remote

CallOperationCancel(h) ==
    /\ service' = operationCancel(service, h)
    /\ out' = [fn |-> "operation.cancel", handle |-> h]
    /\ UNCHANGED remote

CallIsActive(h) ==
    /\ out' = [fn |-> "operation.isActive", handle |-> h,
               result |-> isActive(service, h)]
    /\ UNCHANGED <<service, remote>>

CallDispose ==
    /\ service' = dispose(service)
    /\ out' = [fn |-> "dispose"]
    /\ UNCHANGED remote

NextService ==
    \/ \E k \in 1..MaxNames : CallStartOperation(OperationNames[k])
    \/ \E h \in 1..Len(service.handles) : CallOperationEnd(h)
    \/ \E h \in 1..Len(service.handles) : CallOperationCancel(h)
    \/ \E h \in 1..Len(service.handles) : CallIsActive(h)
    \/ CallDispose

SpecService == InitService /\ [][NextService]_vars

\* ------------------------------------------------------------------
\* C27: after dispose() on the performance monitoring service, every
\* operation handle ever returned by startOperation reports isActive() =
\* false, for any sequence of startOperation, end and cancel calls made
\* before the dispose, operations started under the same name included.
C27_NoneActiveAfterDispose ==
    service.disposed =>
        \A h \in 1..Len(service.handles) : ~isActive(service, h)

\* after dispose(), isActive() has answered true for a handle that was
\* started under a name that a later startOperation took
C27_ReplacedHandleStillActive ==
    /\ service.disposed
    /\ out.fn = "operation.isActive"
    /\ out.result
    /\ \E h \in 1..Len(service.handles) :
           /\ h > out.handle
           /\ service.handles[h].operation
                  = service.handles[out.handle].operation

\* ==================================================================
\* The monitor's cache under many keys
\* ==================================================================
MaxManyKeys == 52
MaxCleanups == 2

\* the keys a caller asks for, one after the other
ManyKeys == {ToString(k) : k \in 1..MaxManyKeys}

InitCache ==
    /\ monitor = createPerformanceMonitor(SmallCacheSize)
    /\ now = 0
    /\ computed = [key \in ManyKeys |-> <<>>]
    /\ recorded = 0
    /\ out = NoCall
    /\ tracker = <<>>
    /\ service = <<>>
    /\ started = NotStarted
    /\ content = <<>>
    /\ regex = FreshRegex
    /\ args = <<>>

\* the caller asks for a key that is not cached while there is one
NextCache ==
    \/ CallStart("test-operation", 1000)
    \/ recorded < MaxCleanups /\ CallEnd(500, 10, 0, 0)
    \/ recorded < MaxCleanups /\ CallRecordMetrics(SampleMetrics)
    \/ /\ Len(monitor.cache) < MaxManyKeys
       /\ CallGetCached(ToString(Len(monitor.cache) + 1), 1, FiveMinutes)

SpecCache == InitCache /\ [][NextCache]_vars

\* ------------------------------------------------------------------
\* C28: after every completed end() or recordMetrics() call on a
\* PerformanceMonitor, its cache holds at most maxCacheSize entries, for
\* any sequence of getCached calls made before it.
C28_CacheWithinMaxCacheSize ==
    (\/ out.fn = "recordMetrics"
     \/ out.fn = "end" /\ out.result # <<>>)
        => Len(monitor.cache) <= monitor.thresholds.maxCacheSize

\* recordMetrics() has removed the fifty oldest of fifty-two entries and
\* left two in a cache whose maxCacheSize is one
C28_MoreThanFiftyOver ==
    /\ out.fn = "recordMetrics"
    /\ monitor.thresholds.maxCacheSize = SmallCacheSize
    /\ Len(monitor.cache) = MaxManyKeys - EvictionBatch
    /\ Len(monitor.cache) > monitor.thresholds.maxCacheSize

\* ==================================================================
\* utils/errorHandling: enhanced errors and their recovery options
\* ==================================================================
ErrorCategories ==
    {"parse", "validation", "safety", "operational", "file-system",
     "configuration"}

\* isRecoverableError(error, category), error given by its message
isRecoverableError(message, category) ==
    CASE category = "parse" -> TRUE
      [] category = "file-system" ->
            Includes(message, <<"p", "e", "r", "m", "i", "s", "s", "i", "o", "n">>) \/ Includes(message, <<"n", "e", "t", "w", "o", "r", "k">>)
      [] category = "configuration" -> TRUE
      [] category = "validation" -> TRUE
      [] category = "safety" -> FALSE
      [] category = "operational" -> ~Includes(message, <<"f", "a", "t", "a", "l">>)
      [] OTHER -> FALSE

\* createEnhancedError(error, category, context, options): options is
\* <<>> when not given, and its recoverable property <<>> when not set.
\* The texts shown to the user and the timestamp play no part in recovery.
createEnhancedError(message, category, options) ==
    [category |-> category,
     message |-> message,
     recoverable |->
        IF options # <<>> /\ options.recoverable # <<>>
        THEN options.recoverable[1]
        ELSE isRecoverableError(message, category),
     severity |-> "medium"]

\* getErrorRecoveryOptions(error): a switch on the category alone
getErrorRecoveryOptions(error) ==
    CASE error.category = "file-system" ->
            [retryable |-> TRUE, maxRetries |-> 3, retryDelay |-> 1000]
      [] error.category = "operational" ->
            [retryable |-> TRUE, maxRetries |-> 2, retryDelay |-> 2000]
      [] error.category = "configuration" ->
            [retryable |-> FALSE, maxRetries |-> 0, retryDelay |-> 0,
             fallbackAction |-> "default configuration"]
      [] OTHER ->
            [retryable |-> FALSE, maxRetries |-> 0, retryDelay |-> 0]

\* ------------------------------------------------------------------
\* Errors that the commands wrap, and the callers that ask how to recover
\* ------------------------------------------------------------------
ErrorMessages ==
    <<<<"P", "a", "r", "s", "e", " ", "e", "r", "r", "o", "r">>, <<"F", "i", "l", "e", " ", "e", "r", "r", "o", "r">>, <<"p", "e", "r", "m", "i", "s", "s", "i", "o", "n", " ", "d", "e", "n", "i", "e", "d">>, <<"n", "e", "t", "w", "o", "r", "k", " ", "d", "o", "w", "n">>,
      <<"f", "a", "t", "a", "l", " ", "e", "r", "r", "o", "r">>, <<"S", "a", "f", "e", "t", "y", " ", "e", "r", "r", "o", "r">>>>

MaxMessages == 5

ErrorOptions ==
    {<<>>, [recoverable |-> <<>>], [recoverable |-> <<TRUE>>],
     [recoverable |-> <<FALSE>>]}

InitErrors ==
    /\ args \in [message : {ErrorMessages[k] : k \in 1..MaxMessages},
                 category : ErrorCategories,
                 options : ErrorOptions]
    /\ out = NoCall
    /\ content = <<>>
    /\ regex = FreshRegex
    /\ NoMonitor

CallCreateEnhancedError ==
    /\ out.fn \in {"none", "getErrorRecoveryOptions"}
    /\ out' = [fn |-> "createEnhancedError",
               error |-> createEnhancedError(args.message, args.category,
                                             args.options)]
    /\ UNCHANGED <<content, regex, others>>

CallGetErrorRecoveryOptions ==
    /\ out.fn = "createEnhancedError"
    /\ out' = [fn |-> "getErrorRecoveryOptions", error |-> out.error,
               result |-> getErrorRecoveryOptions(out.error)]
    /\ UNCHANGED <<content, regex, others>>

NextErrors ==
    \/ CallCreateEnhancedError
    \/ CallGetErrorRecoveryOptions

SpecErrors == InitErrors /\ [][NextErrors]_vars

\* ------------------------------------------------------------------
\* C23: getErrorRecoveryOptions returns retryable = false and
\* maxRetries = 0 for every error whose recoverable flag is false,
\* whatever its category.
C23_UnrecoverableNotRetried ==
    (out.fn = "getErrorRecoveryOptions" /\ ~out.error.recoverable) =>
        /\ ~out.result.retryable
        /\ out.result.maxRetries = 0

\* an error that is not recoverable was given retries
C23_UnrecoverableRetried ==
    /\ out.fn = "getErrorRecoveryOptions"
    /\ ~out.error.recoverable
    /\ out.error.category = "file-system"
    /\ out.result.retryable
    /\ out.result.maxRetries = 3

\* ==================================================================
\* The command on documents around the file-size threshold
\* ==================================================================
MaxOver == 1

\* a document of n characters, all of them blank
LargeDocument(n) == [k \in 1..n |-> " "]

SafetyPool ==
    {CommandDocuments[2]}
        \cup {LargeDocument(MinFileSizeWarnBytes + k) : k \in 0..(MaxOver + 1)}

SafetySettings ==
    [copyToClipboardEnabled : {FALSE},
     openResultsSideBySide : {TRUE},
     safetyEnabled : BOOLEAN,
     fileSizeWarnBytes :
         {<<>>, <<0>>} \cup {<<MinFileSizeWarnBytes + k>> : k \in 0..MaxOver},
     manyDocumentsThreshold : {<<>>}]

InitSafety ==
    /\ args \in [kind : {"command"}, editor : BOOLEAN,
                 languageId : {"css"}, settings : SafetySettings]
    /\ content = <<>>
    /\ regex = FreshRegex
    /\ out = NoCall
    /\ NoMonitor

NextSafety ==
    \/ \E text \in SafetyPool : OpenDocument(text)
    \/ \E userChoice \in {"Continue Anyway", "Cancel"},
          token \in {"never", "before", "after"},
          clock \in {"never", "start", "end"},
          shown \in BOOLEAN :
           RunExtractCommand(userChoice, token, clock, shown)
    \/ Return

SpecSafety == InitSafety /\ [][NextSafety]_vars

\* the document of the run is longer than the file-size threshold in force
OverThreshold ==
    Len(out.document) > getConfiguration(args.settings).safetyFileSizeWarnBytes

\* ------------------------------------------------------------------
\* C25: with safety enabled, the Extract Colors command never calls
\* extractColors on a document whose text length exceeds the file-size
\* threshold unless, in that same invocation, the user chose 'Continue
\* Anyway' in the override prompt.
C25_LargeDocumentNeedsOverride ==
    (/\ out.fn = "extractColorsCommand"
     /\ args.settings.safetyEnabled
     /\ OverThreshold
     /\ out.extracted)
        => out.userChoice = "Continue Anyway"

\* with safety enabled, extractColors was called on a document one
\* character longer than the threshold, after the user's 'Continue Anyway'
C25_OverriddenByUser ==
    /\ out.fn = "extractColorsCommand"
    /\ args.settings.safetyEnabled
    /\ Len(out.document)
           = getConfiguration(args.settings).safetyFileSizeWarnBytes + 1
    /\ out.extracted
    /\ out.userChoice = "Continue Anyway"

\* ==================================================================
\* commands/analyze.ts and commands/filter.ts
\* ==================================================================

\* the callback of colors-le.analyzeColors: extractColors is called with
\* editor.document.getText() and editor.document.fileName and no options
\* (maxColors not set); colors is what the analysis works on
analyzeColorsCommand(editor, fileName, clock) ==
    IF ~editor
    THEN [outcome |-> "no-editor", colors |-> <<>>, regex |-> regex]
    ELSE Let(extractColors(content, fileName, 0, clock, regex, NoFault),
             LAMBDA res :
                 IF ~res.result.success \/ Len(res.result.colors) = 0
                 THEN [outcome |-> "no-colors", colors |-> <<>>,
                       regex |-> res.regex]
                 ELSE [outcome |-> "done", colors |-> res.result.colors,
                       clusters |-> clusterColors(res.result.colors,
                                                  DefaultMaxClusters),
                       palette |-> analyzePalette(res.result.colors),
                       regex |-> res.regex])

\* the loop body of filterColors for colors[k], with the options that the
\* prompts for format and duplicates set; seenColors holds the lowercased
\* values of the colors before it
ShouldExclude(colors, k, options) ==
    \/ options.formats # <<>> /\ colors[k].format \notin options.formats[1]
    \/ options.excludeFormats # <<>>
          /\ colors[k].format \in options.excludeFormats[1]
    \/ options.excludeDuplicates
          /\ \E j \in 1..(k - 1) :
                 toLowerCase(colors[j].value) = toLowerCase(colors[k].value)

\* filterColors(colors, options)
filterColors(colors, options) ==
    Let({k \in 1..Len(colors) : ShouldExclude(colors, k, options)},
        LAMBDA out_ :
        [original |-> colors,
         filtered |-> SelectSeq([k \in 1..Len(colors) |->
                                     IF k \in out_ THEN <<>> ELSE colors[k]],
                                LAMBDA c : c # <<>>),
         excluded |-> SelectSeq([k \in 1..Len(colors) |->
                                     IF k \in out_ THEN colors[k] ELSE <<>>],
                                LAMBDA c : c # <<>>),
         kept |-> Len(colors) - Cardinality(out_)])

\* the callback of colors-le.filterColors; options is what
\* promptForFilterOptions resolves to, <<>> when the user cancels a prompt
filterColorsCommand(editor, fileName, clock, options) ==
    IF ~editor
    THEN [outcome |-> "no-editor", colors |-> <<>>, regex |-> regex]
    ELSE Let(extractColors(content, fileName, 0, clock, regex, NoFault),
             LAMBDA res :
                 IF ~res.result.success \/ Len(res.result.colors) = 0
                 THEN [outcome |-> "no-colors", colors |-> <<>>,
                       regex |-> res.regex]
                 ELSE IF options = <<>>
                 THEN [outcome |-> "cancelled", colors |-> res.result.colors,
                       regex |-> res.regex]
                 ELSE [outcome |-> "done", colors |-> res.result.colors,
                       result |-> filterColors(res.result.colors, options[1]),
                       regex |-> res.regex])

\* ------------------------------------------------------------------
\* The two commands on the documents of the extractors
\* ------------------------------------------------------------------
\* the active editor's document: its language and its file name
EditorDocuments ==
    <<[languageId |-> "css", fileName |-> "/w/a.css"],
      [languageId |-> "javascript", fileName |-> "/w/a.js"],
      [languageId |-> "html", fileName |-> "/w/a.html"],
      [languageId |-> "svg", fileName |-> "/w/a.svg"],
      [languageId |-> "plaintext", fileName |-> "Untitled-1"]>>

MaxEditors == 4

\* what promptForFilterOptions can resolve to
FilterOptions ==
    {<<>>,
     <<[formats |-> <<>>, excludeFormats |-> <<>>,
        excludeDuplicates |-> FALSE]>>,
     <<[formats |-> <<{"hex"}>>, excludeFormats |-> <<>>,
        excludeDuplicates |-> TRUE]>>,
     <<[formats |-> <<>>, excludeFormats |-> <<{"hex"}>>,
        excludeDuplicates |-> FALSE]>>}

InitAnalyze ==
    /\ args \in [kind : {"editor"}, editor : BOOLEAN,
                 document : {EditorDocuments[k] : k \in 1..MaxEditors}]
    /\ content = <<>>
    /\ regex = FreshRegex
    /\ out = NoCall
    /\ NoMonitor

\* what a run of one of the two commands leaves
Worked(fn, res) ==
    /\ out' = [fn |-> fn, document |-> content, outcome |-> res.outcome,
               colors |-> res.colors]
    /\ regex' = res.regex
    /\ UNCHANGED <<content, others>>

RunAnalyzeCommand(clock) ==
    /\ out = NoCall
    /\ args.kind = "editor"
    /\ Worked("analyzeColorsCommand",
              analyzeColorsCommand(args.editor, args.document.fileName, clock))

RunFilterCommand(clock, options) ==
    /\ out = NoCall
    /\ args.kind = "editor"
    /\ Worked("filterColorsCommand",
              filterColorsCommand(args.editor, args.document.fileName, clock,
                                  options))

NextAnalyze ==
    \/ \E text \in Pool : OpenDocument(text)
    \/ \E clock \in {"never", "start", "end"} : RunAnalyzeCommand(clock)
    \/ \E clock \in {"never", "start", "end"}, options \in FilterOptions :
           RunFilterCommand(clock, options)
    \/ Return

SpecAnalyze == InitAnalyze /\ [][NextAnalyze]_vars

\* ------------------------------------------------------------------
\* C26: the Analyze and Filter commands extract colors with the extractor
\* that matches the active document's language (the JavaScript extractor
\* for a JavaScript document, the HTML extractor for an HTML document, and
\* so on).
C26_ColorsOfMatchingExtractor ==
    (/\ out.fn \in {"analyzeColorsCommand", "filterColorsCommand"}
     /\ out.outcome = "done")
        => out.colors = FoundIn(out.document, args.document.languageId)

\* the Analyze command has worked on a JavaScript document with the colors
\* that the CSS extractor finds in it, which the JavaScript extractor does
\* not find
C26_JavaScriptReadAsCss ==
    /\ out.fn = "analyzeColorsCommand"
    /\ out.outcome = "done"
    /\ args.document.languageId = "javascript"
    /\ out.colors = extractFromCss(out.document, FreshRegex.css, NoFault).colors
    /\ out.colors # FoundIn(out.document, "javascript")

\* ------------------------------------------------------------------
\* C29: for every Color returned by an extractor, the source text at its
\* reported line and column begins with exactly its value (same
\* characters, casing and spacing).  The column is read as the other
\* claims on positions read it, counted from one; a column counted from
\* zero is accepted as well.
ValueAtPosition(text, color) ==
    \/ StartsWithAt(LineOf(text, color), color.position.column - 1,
                    color.value)
    \/ StartsWithAt(LineOf(text, color), color.position.column, color.value)

C29_ValueAtReportedPosition ==
    out.fn \in Extractors =>
        \A k \in DOMAIN out.colors : ValueAtPosition(content, out.colors[k])

\* extractFromHtml has returned a color of a style attribute with its
\* column inside the attribute's content, where the line holds other text
C29_ColumnWithinAttribute ==
    /\ out.fn = "extractFromHtml"
    /\ \E k \in DOMAIN out.colors :
           /\ out.colors[k].value = <<"#", "0", "f", "0">>
           /\ out.colors[k].position.column = 3
           /\ SubSeq(LineOf(content, out.colors[k]), 3, 6) = <<">", "<", "!", "-">>

====
